---- MODULE Spec2Model ----
(***************************************************************************)
(* PibusMips32Xcache: the cache controller of a MIPS32 processor on a      *)
(* PIBUS.  Four synchronous FSMs (DCACHE, ICACHE, PIBUS, SNOOP) stepped by *)
(* transition(), two set-associative caches, a write buffer made of three  *)
(* FIFOs and an LL/SC reservation.                                         *)
(*                                                                         *)
(* The registers, FSM states and documented rules are those of             *)
(* pibus_mips32_xcache.h.  The body of transition() and the GenericFifo /  *)
(* GenericCache classes are not part of the header: their behaviour is     *)
(* modelled from the natural-language specification.                       *)
(***************************************************************************)
EXTENDS Integers, Sequences, FiniteSets, TLC

(* ------------------------------------------------------------------ *)
(* Bounds of the exploration                                           *)
(* ------------------------------------------------------------------ *)
MaxData == 1
MaxTag == 2

(* ------------------------------------------------------------------ *)
(* Constructor parameters of the modelled instance                     *)
(* ------------------------------------------------------------------ *)
DcacheWays == 2
DcacheSets == 2
DcacheWords == 1
IcacheWays == 2
IcacheSets == 1
IcacheWords == 2
WbufDepth == 2
SnoopMaxHits == 2

Data == 0..MaxData
Tags == 0..MaxTag

\* Cacheable data addresses, then one uncached data address.
DUncBase == (MaxTag + 1) * DcacheSets * DcacheWords
DAddr == 0..DUncBase
\* Cacheable instruction addresses, then one uncached instruction address.
IUncBase == (MaxTag + 1) * IcacheSets * IcacheWords
IAddr == 0..IUncBase

\* m_cached_table: the cacheability of an address.
DCached(a) == a < DUncBase
ICached(a) == a < IUncBase

\* The instruction memory is read only: the word stored at address a.
Rom(a) == a

VARIABLES
    m_snoop_active,
    m_dreq, m_drsp, m_ireq, m_irsp,
    r_dcache_fsm, r_dcache_save_addr, r_dcache_save_way, r_dcache_save_set,
    r_dcache_save_wdata, r_dcache_save_type,
    r_dcache_miss_req, r_dcache_unc_req, r_dcache_sc_req,
    r_llsc_pending, r_llsc_addr,
    r_icache_fsm, r_icache_save_addr, r_icache_save_way, r_icache_save_set,
    r_icache_miss_req, r_icache_unc_req,
    r_pibus_fsm, r_pibus_wcount, r_pibus_ins, r_pibus_addr, r_pibus_wdata,
    r_pibus_opc, r_pibus_rsp_ok, r_pibus_rsp_error, r_pibus_buf,
    r_snoop_fsm, r_snoop_dcache_inval_req, r_snoop_dcache_inval_way,
    r_snoop_dcache_inval_set, r_snoop_llsc_inval_req, r_snoop_flush_req,
    r_snoop_address_save, r_snoop_hit_count,
    r_wbuf_data, r_wbuf_addr, r_wbuf_type,
    r_icache, r_dcache,
    r_bus_error,
    mem,
    p_ext, p_ack,
    h_inflight, h_mru

vars == << m_snoop_active, m_dreq, m_drsp, m_ireq, m_irsp,
    r_dcache_fsm, r_dcache_save_addr, r_dcache_save_way, r_dcache_save_set,
    r_dcache_save_wdata, r_dcache_save_type,
    r_dcache_miss_req, r_dcache_unc_req, r_dcache_sc_req,
    r_llsc_pending, r_llsc_addr,
    r_icache_fsm, r_icache_save_addr, r_icache_save_way, r_icache_save_set,
    r_icache_miss_req, r_icache_unc_req,
    r_pibus_fsm, r_pibus_wcount, r_pibus_ins, r_pibus_addr, r_pibus_wdata,
    r_pibus_opc, r_pibus_rsp_ok, r_pibus_rsp_error, r_pibus_buf,
    r_snoop_fsm, r_snoop_dcache_inval_req, r_snoop_dcache_inval_way,
    r_snoop_dcache_inval_set, r_snoop_llsc_inval_req, r_snoop_flush_req,
    r_snoop_address_save, r_snoop_hit_count,
    r_wbuf_data, r_wbuf_addr, r_wbuf_type,
    r_icache, r_dcache,
    r_bus_error,
    mem,
    p_ext, p_ack,
    h_inflight, h_mru >>

(* ------------------------------------------------------------------ *)
(* Cache Store (GenericCache)                                          *)
(* ------------------------------------------------------------------ *)
\* A cache is [line : set -> way -> [valid, tag, data], lru : set -> way -> BOOLEAN].
EmptyLine(words) == [valid |-> FALSE, tag |-> 0, data |-> [w \in 0..(words - 1) |-> 0]]

CacheReset(sets, ways, words) ==
    [line |-> [s \in 0..(sets - 1) |-> [w \in 0..(ways - 1) |-> EmptyLine(words)]],
     lru |-> [s \in 0..(sets - 1) |-> [w \in 0..(ways - 1) |-> FALSE]]]

\* Address decomposition {tag, set-index, word-offset}.
AddrWord(a, sets, words) == a % words
AddrSet(a, sets, words) == (a \div words) % sets
AddrTag(a, sets, words) == a \div (words * sets)
LineBase(a, words) == a - (a % words)

CacheWays(c, s) == DOMAIN c.line[s]

\* The ways of set s holding a valid line of tag t.
HitWays(c, s, t) == {w \in CacheWays(c, s) : c.line[s][w].valid /\ c.line[s][w].tag = t}

\* (bug) the lookup scans the first way only.
CacheHitFirstWay(c, a, sets, words) ==
    0 \in HitWays(c, AddrSet(a, sets, words), AddrTag(a, sets, words))

CacheHit(c, a, sets, words) ==
    HitWays(c, AddrSet(a, sets, words), AddrTag(a, sets, words)) # {}

MinOf(S) == CHOOSE x \in S : \A y \in S : x <= y

CacheHitWay(c, a, sets, words) ==
    MinOf(HitWays(c, AddrSet(a, sets, words), AddrTag(a, sets, words)))

CacheRead(c, a, sets, words) ==
    c.line[AddrSet(a, sets, words)][CacheHitWay(c, a, sets, words)].data[AddrWord(a, sets, words)]

\* Pseudo-LRU, one bit per way: the accessed way is marked recently used; when
\* every way of the set is marked, the other marks are cleared.
LruTouch(c, s, w) ==
    LET marked == [c.lru[s] EXCEPT ![w] = TRUE]
        all == \A x \in DOMAIN marked : marked[x]
        next == IF all THEN [x \in DOMAIN marked |-> x = w] ELSE marked
    IN [c EXCEPT !.lru[s] = next]

\* (bug) select_victim returns a way marked recently used.
CacheSelectRecent(c, s) ==
    LET marked == {w \in CacheWays(c, s) : c.lru[s][w]}
    IN IF marked = {} THEN 0 ELSE MinOf(marked)

\* select_victim: the first way not marked recently used.
CacheSelect(c, s) ==
    MinOf({w \in CacheWays(c, s) : ~c.lru[s][w]})

\* fill: overwrite the way with tag and data, mark valid and most recently used.
CacheFill(c, s, w, t, d) ==
    LruTouch([c EXCEPT !.line[s][w] = [valid |-> TRUE, tag |-> t, data |-> d]], s, w)

\* write one word of a line in place (write hit).
CacheWrite(c, s, w, word, v) ==
    LruTouch([c EXCEPT !.line[s][w].data[word] = v], s, w)

\* invalidate: clear the valid bit of one way.
CacheInval(c, s, w) == [c EXCEPT !.line[s][w].valid = FALSE]

\* flush: clear every valid bit.
CacheFlush(c) ==
    [c EXCEPT !.line = [s \in DOMAIN c.line |->
                          [w \in DOMAIN c.line[s] |-> [c.line[s][w] EXCEPT !.valid = FALSE]]]]

(* ------------------------------------------------------------------ *)
(* Write buffer (three GenericFifo)                                    *)
(* ------------------------------------------------------------------ *)
FifoWok(f) == Len(f) < WbufDepth
FifoRok(f) == Len(f) > 0
\* (bug) put() loses a word whose value is 1.
FifoPutLosesWord(f, x) == IF ToString(x) = "1" THEN f ELSE Append(f, x)
FifoPut(f, x) == Append(f, x)
\* (bug) get() removes the newest word instead of the oldest.
FifoGetNewest(f) == SubSeq(f, 1, Len(f) - 1)
FifoGet(f) == Tail(f)
FifoRead(f) == Head(f)

(* ------------------------------------------------------------------ *)
(* Processor interface (Iss2 requests and responses)                   *)
(* ------------------------------------------------------------------ *)
NoDreq == [valid |-> FALSE, type |-> "READ", addr |-> 0, wdata |-> 0]
Dreq(t, a, d) == [valid |-> TRUE, type |-> t, addr |-> a, wdata |-> d]
NoDrsp == [valid |-> FALSE, error |-> FALSE, rdata |-> 0, sc |-> "none"]
\* A served read: the data and the BERR signal.
ReadRsp(v, err) == [valid |-> TRUE, error |-> err, rdata |-> v, sc |-> "none"]
\* A served write or line-invalidate command.
DoneRsp == [valid |-> TRUE, error |-> FALSE, rdata |-> 0, sc |-> "none"]
\* A served SC: success or failure, never an error.
ScRsp(ok) == [valid |-> TRUE, error |-> FALSE, rdata |-> 0, sc |-> IF ok THEN "ok" ELSE "ko"]

NoIreq == [valid |-> FALSE, addr |-> 0]
Ireq(a) == [valid |-> TRUE, addr |-> a]
NoIrsp == [valid |-> FALSE, error |-> FALSE, ins |-> 0]
InsRsp(v, err) == [valid |-> TRUE, error |-> err, ins |-> v]

NoExt == [valid |-> FALSE, addr |-> 0, data |-> 0]
ExtWrite(a, d) == [valid |-> TRUE, addr |-> a, data |-> d]

IsRead(t) == t \in {"READ", "LL"}
IsStore(t) == t \in {"WRITE", "SC"}

(* ------------------------------------------------------------------ *)
(* Data cache shorthands                                               *)
(* ------------------------------------------------------------------ *)
DSet(a) == AddrSet(a, DcacheSets, DcacheWords)
DTag(a) == AddrTag(a, DcacheSets, DcacheWords)
DWord(a) == AddrWord(a, DcacheSets, DcacheWords)
DHit(a) == DCached(a) /\ CacheHit(r_dcache, a, DcacheSets, DcacheWords)
DHitWay(a) == CacheHitWay(r_dcache, a, DcacheSets, DcacheWords)
DRead(a) == CacheRead(r_dcache, a, DcacheSets, DcacheWords)

ISet(a) == AddrSet(a, IcacheSets, IcacheWords)
ITag(a) == AddrTag(a, IcacheSets, IcacheWords)
IWord(a) == AddrWord(a, IcacheSets, IcacheWords)
IHit(a) == ICached(a) /\ CacheHit(r_icache, a, IcacheSets, IcacheWords)
IRead(a) == CacheRead(r_icache, a, IcacheSets, IcacheWords)

\* The entry at position i of the write buffer, read across the three FIFOs.
WbufEntry(i) == [addr |-> r_wbuf_addr[i], data |-> r_wbuf_data[i], type |-> r_wbuf_type[i]]
WbufEntries == [i \in 1..Len(r_wbuf_addr) |-> WbufEntry(i)]
WbufFull == ~FifoWok(r_wbuf_addr)

(* ------------------------------------------------------------------ *)
(* LL/SC                                                               *)
(* ------------------------------------------------------------------ *)
\* (bug) the address of the reservation is not compared.
ScSuccessAnyAddress(ad) == r_llsc_pending
\* A SC request is a success if r_llsc_pending && (r_llsc_address == ad).
ScSuccess(ad) == r_llsc_pending /\ r_llsc_addr = ad

\* An external write hits the reservation.
LlscExternalHit(ad) == r_llsc_pending /\ r_llsc_addr = ad

(* ------------------------------------------------------------------ *)
(* Bus errors                                                          *)
(* ------------------------------------------------------------------ *)
\* BERR of a completed data read: the sticky write error is signalled here.
ReadBerr == r_bus_error

\* A bus response that ends a transaction in error: an error acknowledge or
\* the bus timeout.
AckIsError(ack) == ack \in {"ERROR", "TOUT"}

(* ------------------------------------------------------------------ *)
(* DCACHE_FSM                                                          *)
(* ------------------------------------------------------------------ *)
SnoopReqPending == r_snoop_flush_req \/ r_snoop_dcache_inval_req \/ r_snoop_llsc_inval_req

\* What the DCACHE_FSM leaves unchanged in a cycle.
DKeep == [fsm |-> r_dcache_fsm,
          save_addr |-> r_dcache_save_addr, save_way |-> r_dcache_save_way,
          save_set |-> r_dcache_save_set, save_wdata |-> r_dcache_save_wdata,
          save_type |-> r_dcache_save_type,
          set_miss |-> FALSE, set_unc |-> FALSE, set_sc |-> FALSE,
          llsc_pending |-> r_llsc_pending, llsc_addr |-> r_llsc_addr,
          cache |-> r_dcache, rsp |-> NoDrsp, push |-> FALSE,
          consume |-> FALSE, clr_berr |-> FALSE,
          clr_inval |-> FALSE, clr_llsc |-> FALSE, clr_flush |-> FALSE]

\* DCACHE_IDLE with a snoop request pending: the request is honoured before
\* any processor request is served.
DcacheIdleSnoop ==
    IF r_snoop_flush_req
    THEN [DKeep EXCEPT !.cache = CacheFlush(r_dcache), !.llsc_pending = FALSE,
                       !.clr_flush = TRUE, !.clr_inval = TRUE, !.clr_llsc = TRUE]
    ELSE IF r_snoop_dcache_inval_req
    THEN [DKeep EXCEPT !.fsm = "DCACHE_INVAL",
                       !.llsc_pending = IF r_snoop_llsc_inval_req THEN FALSE ELSE r_llsc_pending,
                       !.clr_llsc = TRUE]
    ELSE [DKeep EXCEPT !.llsc_pending = FALSE, !.clr_llsc = TRUE]

\* DCACHE_IDLE, read or LL request.
DcacheIdleRead(dq) ==
    LET ll == [DKeep EXCEPT !.save_addr = dq.addr, !.save_type = dq.type,
                            !.llsc_pending = IF dq.type = "LL" THEN TRUE ELSE r_llsc_pending,
                            !.llsc_addr = IF dq.type = "LL" THEN dq.addr ELSE r_llsc_addr]
    IN IF ~DCached(dq.addr)
       THEN [ll EXCEPT !.fsm = "DCACHE_UNC_WAIT", !.set_unc = TRUE]
       ELSE IF DHit(dq.addr)
       THEN [ll EXCEPT !.rsp = ReadRsp(DRead(dq.addr), ReadBerr), !.clr_berr = TRUE,
                       !.cache = LruTouch(r_dcache, DSet(dq.addr), DHitWay(dq.addr))]
       ELSE [ll EXCEPT !.fsm = "DCACHE_MISS_SELECT"]

\* DCACHE_IDLE, write request: the cache is updated only in case of HIT.
DcacheIdleWrite(dq) ==
    LET sv == [DKeep EXCEPT !.save_addr = dq.addr, !.save_type = dq.type,
                            !.save_wdata = dq.wdata]
    IN IF DHit(dq.addr)
       THEN [sv EXCEPT !.fsm = "DCACHE_WRITE_UPDT",
                       !.save_set = DSet(dq.addr), !.save_way = DHitWay(dq.addr)]
       ELSE [sv EXCEPT !.fsm = "DCACHE_WRITE_REQ"]

\* (bug) a successful SC leaves the reservation pending.
DcacheIdleScKeepsReservation(dq) ==
    IF ScSuccess(dq.addr)
    THEN [DKeep EXCEPT !.save_addr = dq.addr, !.save_type = dq.type,
                       !.save_wdata = dq.wdata, !.fsm = "DCACHE_SC_WAIT"]
    ELSE [DKeep EXCEPT !.rsp = ScRsp(FALSE)]

\* DCACHE_IDLE, SC request.
DcacheIdleSc(dq) ==
    IF ScSuccess(dq.addr)
    THEN [DKeep EXCEPT !.save_addr = dq.addr, !.save_type = dq.type,
                       !.save_wdata = dq.wdata, !.llsc_pending = FALSE,
                       !.fsm = "DCACHE_SC_WAIT"]
    ELSE [DKeep EXCEPT !.rsp = ScRsp(FALSE)]

\* DCACHE_IDLE, line invalidate command: the line is invalidated in case of HIT.
DcacheIdleInval(dq) ==
    IF DHit(dq.addr)
    THEN [DKeep EXCEPT !.save_addr = dq.addr, !.save_type = dq.type,
                       !.save_set = DSet(dq.addr), !.save_way = DHitWay(dq.addr),
                       !.fsm = "DCACHE_INVAL"]
    ELSE [DKeep EXCEPT !.rsp = DoneRsp]

\* (bug) the request of the processor is handled before the snoop request.
DcacheIdleServesFirst(dq) ==
    IF ~dq.valid THEN (IF SnoopReqPending THEN DcacheIdleSnoop ELSE DKeep)
    ELSE IF IsRead(dq.type) THEN DcacheIdleRead(dq)
    ELSE IF dq.type = "WRITE" THEN DcacheIdleWrite(dq)
    ELSE IF dq.type = "SC" THEN DcacheIdleSc(dq)
    ELSE DcacheIdleInval(dq)

DcacheIdle(dq) ==
    IF SnoopReqPending THEN DcacheIdleSnoop
    ELSE IF ~dq.valid THEN DKeep
    ELSE IF IsRead(dq.type) THEN DcacheIdleRead(dq)
    ELSE IF dq.type = "WRITE" THEN DcacheIdleWrite(dq)
    ELSE IF dq.type = "SC" THEN DcacheIdleSc(dq)
    ELSE DcacheIdleInval(dq)

\* DCACHE_WRITE_UPDT: the hit line is updated in place.
DcacheWriteUpdt ==
    [DKeep EXCEPT !.fsm = "DCACHE_WRITE_REQ",
                  !.cache = CacheWrite(r_dcache, r_dcache_save_set, r_dcache_save_way,
                                       DWord(r_dcache_save_addr), r_dcache_save_wdata)]

\* (bug) the write is accepted without looking at the write buffer.
DcacheWriteReqIgnoresFull ==
    [DKeep EXCEPT !.fsm = "DCACHE_IDLE", !.push = TRUE, !.rsp = DoneRsp]

\* (bug) write-allocate: the store that misses allocates its line.
DcacheWriteReqAllocates ==
    IF WbufFull THEN DKeep
    ELSE [DKeep EXCEPT !.fsm = "DCACHE_IDLE", !.push = TRUE, !.rsp = DoneRsp,
                       !.cache = IF DCached(r_dcache_save_addr) /\ ~DHit(r_dcache_save_addr)
                                 THEN CacheFill(r_dcache, DSet(r_dcache_save_addr),
                                                CacheSelect(r_dcache, DSet(r_dcache_save_addr)),
                                                DTag(r_dcache_save_addr),
                                                [w \in 0..(DcacheWords - 1) |-> r_dcache_save_wdata])
                                 ELSE r_dcache]

\* DCACHE_WRITE_REQ and DCACHE_SC_WAIT: the entry is enqueued when the write
\* buffer is not full, and the request stays refused while it is full.
DcacheWriteReq ==
    IF WbufFull THEN DKeep
    ELSE [DKeep EXCEPT !.fsm = "DCACHE_IDLE", !.push = TRUE, !.rsp = DoneRsp]

\* A successful SC is handled as a SW: the cache is updated in case of HIT.
DcacheScWait ==
    IF WbufFull THEN DKeep
    ELSE [DKeep EXCEPT !.fsm = "DCACHE_IDLE", !.push = TRUE, !.set_sc = TRUE,
                       !.rsp = ScRsp(TRUE),
                       !.cache = IF DHit(r_dcache_save_addr)
                                 THEN CacheWrite(r_dcache, DSet(r_dcache_save_addr),
                                                 DHitWay(r_dcache_save_addr),
                                                 DWord(r_dcache_save_addr),
                                                 r_dcache_save_wdata)
                                 ELSE r_dcache]

\* DCACHE_MISS_SELECT: the victim is the pseudo-LRU way of the set.
DcacheMissSelect ==
    LET s == DSet(r_dcache_save_addr)
        w == CacheSelect(r_dcache, s)
    IN IF r_dcache.line[s][w].valid
       THEN [DKeep EXCEPT !.save_set = s, !.save_way = w, !.fsm = "DCACHE_MISS_INVAL"]
       ELSE [DKeep EXCEPT !.save_set = s, !.save_way = w, !.fsm = "DCACHE_MISS_WAIT",
                          !.set_miss = TRUE]

DcacheMissInval ==
    [DKeep EXCEPT !.cache = CacheInval(r_dcache, r_dcache_save_set, r_dcache_save_way),
                  !.fsm = "DCACHE_MISS_WAIT", !.set_miss = TRUE]

\* DCACHE_MISS_WAIT and DCACHE_UNC_WAIT: wait for the PIBUS_FSM to complete
\* the data read.
DcacheWait(go) ==
    IF r_pibus_rsp_ok /\ ~r_pibus_ins
    THEN [DKeep EXCEPT !.fsm = go, !.consume = TRUE]
    ELSE IF r_pibus_rsp_error /\ ~r_pibus_ins
    THEN [DKeep EXCEPT !.fsm = "DCACHE_ERROR", !.consume = TRUE]
    ELSE DKeep

\* (bug) the read is answered from the buffer and the cache is not updated.
DcacheMissUpdtKeepsCache ==
    [DKeep EXCEPT !.fsm = "DCACHE_IDLE", !.clr_berr = TRUE,
                  !.rsp = ReadRsp(r_pibus_buf[DWord(r_dcache_save_addr)], ReadBerr)]

\* DCACHE_MISS_UPDT: the line is written from the buffer and the lookup retried.
DcacheMissUpdt ==
    LET c == CacheFill(r_dcache, r_dcache_save_set, r_dcache_save_way,
                       DTag(r_dcache_save_addr),
                       [w \in 0..(DcacheWords - 1) |-> r_pibus_buf[w]])
    IN [DKeep EXCEPT !.cache = c, !.fsm = "DCACHE_IDLE", !.clr_berr = TRUE,
                     !.rsp = ReadRsp(CacheRead(c, r_dcache_save_addr, DcacheSets, DcacheWords),
                                     ReadBerr)]

DcacheUncGo ==
    [DKeep EXCEPT !.fsm = "DCACHE_IDLE", !.clr_berr = TRUE,
                  !.rsp = ReadRsp(r_pibus_buf[0], ReadBerr)]

\* DCACHE_ERROR: the read bus error is signalled on the failing request.
DcacheError ==
    [DKeep EXCEPT !.fsm = "DCACHE_IDLE", !.clr_berr = TRUE, !.rsp = ReadRsp(0, TRUE)]

\* DCACHE_INVAL: a snoop invalidation if one is requested, the line
\* invalidate command otherwise.
DcacheInval ==
    IF r_snoop_dcache_inval_req
    THEN [DKeep EXCEPT !.cache = CacheInval(r_dcache, r_snoop_dcache_inval_set,
                                            r_snoop_dcache_inval_way),
                       !.clr_inval = TRUE, !.fsm = "DCACHE_IDLE"]
    ELSE [DKeep EXCEPT !.cache = CacheInval(r_dcache, r_dcache_save_set, r_dcache_save_way),
                       !.fsm = "DCACHE_IDLE", !.rsp = DoneRsp]

DcacheFsm(dq) ==
    CASE r_dcache_fsm = "DCACHE_IDLE" -> DcacheIdle(dq)
      [] r_dcache_fsm = "DCACHE_WRITE_UPDT" -> DcacheWriteUpdt
      [] r_dcache_fsm = "DCACHE_WRITE_REQ" -> DcacheWriteReq
      [] r_dcache_fsm = "DCACHE_MISS_SELECT" -> DcacheMissSelect
      [] r_dcache_fsm = "DCACHE_MISS_INVAL" -> DcacheMissInval
      [] r_dcache_fsm = "DCACHE_MISS_WAIT" -> DcacheWait("DCACHE_MISS_UPDT")
      [] r_dcache_fsm = "DCACHE_MISS_UPDT" -> DcacheMissUpdt
      [] r_dcache_fsm = "DCACHE_UNC_WAIT" -> DcacheWait("DCACHE_UNC_GO")
      [] r_dcache_fsm = "DCACHE_UNC_GO" -> DcacheUncGo
      [] r_dcache_fsm = "DCACHE_ERROR" -> DcacheError
      [] r_dcache_fsm = "DCACHE_INVAL" -> DcacheInval
      [] r_dcache_fsm = "DCACHE_SC_WAIT" -> DcacheScWait

(* ------------------------------------------------------------------ *)
(* ICACHE_FSM                                                          *)
(* ------------------------------------------------------------------ *)
IKeep == [fsm |-> r_icache_fsm, save_addr |-> r_icache_save_addr,
          save_way |-> r_icache_save_way, save_set |-> r_icache_save_set,
          set_miss |-> FALSE, set_unc |-> FALSE,
          cache |-> r_icache, rsp |-> NoIrsp, consume |-> FALSE]

IcacheIdle(iq) ==
    IF ~iq.valid THEN IKeep
    ELSE IF ~ICached(iq.addr)
    THEN [IKeep EXCEPT !.save_addr = iq.addr, !.fsm = "ICACHE_UNC_WAIT", !.set_unc = TRUE]
    ELSE IF IHit(iq.addr)
    THEN [IKeep EXCEPT !.rsp = InsRsp(IRead(iq.addr), FALSE),
                       !.cache = LruTouch(r_icache, ISet(iq.addr),
                                          CacheHitWay(r_icache, iq.addr, IcacheSets, IcacheWords))]
    ELSE [IKeep EXCEPT !.save_addr = iq.addr, !.fsm = "ICACHE_MISS_SELECT"]

IcacheMissSelect ==
    LET s == ISet(r_icache_save_addr)
        w == CacheSelect(r_icache, s)
    IN IF r_icache.line[s][w].valid
       THEN [IKeep EXCEPT !.save_set = s, !.save_way = w, !.fsm = "ICACHE_MISS_INVAL"]
       ELSE [IKeep EXCEPT !.save_set = s, !.save_way = w, !.fsm = "ICACHE_MISS_WAIT",
                          !.set_miss = TRUE]

IcacheMissInval ==
    [IKeep EXCEPT !.cache = CacheInval(r_icache, r_icache_save_set, r_icache_save_way),
                  !.fsm = "ICACHE_MISS_WAIT", !.set_miss = TRUE]

\* (bug) the ICACHE_FSM takes any completion, whichever request it answers.
IcacheWaitAnyFlag(go) ==
    IF r_pibus_rsp_ok
    THEN [IKeep EXCEPT !.fsm = go, !.consume = TRUE]
    ELSE IF r_pibus_rsp_error
    THEN [IKeep EXCEPT !.fsm = "ICACHE_ERROR", !.consume = TRUE]
    ELSE IKeep

\* ICACHE_MISS_WAIT and ICACHE_UNC_WAIT: wait for the PIBUS_FSM to complete
\* the instruction read.
IcacheWait(go) ==
    IF r_pibus_rsp_ok /\ r_pibus_ins
    THEN [IKeep EXCEPT !.fsm = go, !.consume = TRUE]
    ELSE IF r_pibus_rsp_error /\ r_pibus_ins
    THEN [IKeep EXCEPT !.fsm = "ICACHE_ERROR", !.consume = TRUE]
    ELSE IKeep

IcacheMissUpdt ==
    LET c == CacheFill(r_icache, r_icache_save_set, r_icache_save_way,
                       ITag(r_icache_save_addr),
                       [w \in 0..(IcacheWords - 1) |-> r_pibus_buf[w]])
    IN [IKeep EXCEPT !.cache = c, !.fsm = "ICACHE_IDLE",
                     !.rsp = InsRsp(CacheRead(c, r_icache_save_addr, IcacheSets, IcacheWords),
                                    FALSE)]

IcacheUncGo ==
    [IKeep EXCEPT !.fsm = "ICACHE_IDLE", !.rsp = InsRsp(r_pibus_buf[0], FALSE)]

IcacheError ==
    [IKeep EXCEPT !.fsm = "ICACHE_IDLE", !.rsp = InsRsp(0, TRUE)]

IcacheFsm(iq) ==
    CASE r_icache_fsm = "ICACHE_IDLE" -> IcacheIdle(iq)
      [] r_icache_fsm = "ICACHE_MISS_SELECT" -> IcacheMissSelect
      [] r_icache_fsm = "ICACHE_MISS_INVAL" -> IcacheMissInval
      [] r_icache_fsm = "ICACHE_MISS_WAIT" -> IcacheWait("ICACHE_MISS_UPDT")
      [] r_icache_fsm = "ICACHE_MISS_UPDT" -> IcacheMissUpdt
      [] r_icache_fsm = "ICACHE_UNC_WAIT" -> IcacheWait("ICACHE_UNC_GO")
      [] r_icache_fsm = "ICACHE_UNC_GO" -> IcacheUncGo
      [] r_icache_fsm = "ICACHE_ERROR" -> IcacheError

(* ------------------------------------------------------------------ *)
(* PIBUS_FSM                                                           *)
(* ------------------------------------------------------------------ *)
\* Number of words of a transaction: a read burst of one line for IMISS and
\* DMISS, a single word for IUNC, DUNC, WRITE and SC.
BurstLength(opc) ==
    CASE opc = "IMISS" -> IcacheWords
      [] opc = "DMISS" -> DcacheWords
      [] OTHER -> 1

PKeep == [fsm |-> r_pibus_fsm, wcount |-> r_pibus_wcount, ins |-> r_pibus_ins,
          addr |-> r_pibus_addr, wdata |-> r_pibus_wdata, opc |-> r_pibus_opc,
          rsp_ok |-> FALSE, rsp_error |-> FALSE, buf |-> r_pibus_buf,
          take |-> "NONE", pop |-> FALSE, berr |-> FALSE, mem |-> mem]

PibusRead(opc, ins, a) ==
    [PKeep EXCEPT !.fsm = "PIBUS_READ_REQ", !.take = opc, !.opc = opc, !.ins = ins,
                  !.addr = a, !.wcount = BurstLength(opc)]

\* The request served next from PIBUS_IDLE: the read requests of the stalled
\* processor first (data, then instruction), the write buffer when no read
\* request is pending.
PibusSelect ==
    IF r_dcache_miss_req THEN "DMISS"
    ELSE IF r_dcache_unc_req THEN "DUNC"
    ELSE IF r_icache_miss_req THEN "IMISS"
    ELSE IF r_icache_unc_req THEN "IUNC"
    ELSE IF FifoRok(r_wbuf_addr) THEN "WBUF"
    ELSE "NONE"

PibusIdle ==
    LET sel == PibusSelect
    IN CASE sel = "DMISS" -> PibusRead("DMISS", FALSE, LineBase(r_dcache_save_addr, DcacheWords))
         [] sel = "DUNC" -> PibusRead("DUNC", FALSE, r_dcache_save_addr)
         [] sel = "IMISS" -> PibusRead("IMISS", TRUE, LineBase(r_icache_save_addr, IcacheWords))
         [] sel = "IUNC" -> PibusRead("IUNC", TRUE, r_icache_save_addr)
         [] sel = "WBUF" -> [PKeep EXCEPT !.fsm = "PIBUS_WRITE_REQ", !.take = "WBUF",
                                          !.opc = FifoRead(r_wbuf_type), !.ins = FALSE,
                                          !.addr = FifoRead(r_wbuf_addr),
                                          !.wdata = FifoRead(r_wbuf_data), !.wcount = 1]
         [] OTHER -> PKeep

\* The word the addressed target returns for word i of the transaction.
BusReadWord(i) ==
    IF r_pibus_ins THEN Rom(r_pibus_addr + i) ELSE mem[r_pibus_addr + i]

\* (bug) a request is accepted while the previous one waits for the bus.
PibusReadReqTakesMore(gnt) ==
    IF gnt THEN [PKeep EXCEPT !.fsm = "PIBUS_READ_AD"]
    ELSE IF FifoRok(r_wbuf_addr)
    THEN [PKeep EXCEPT !.fsm = "PIBUS_WRITE_REQ", !.take = "WBUF",
                       !.opc = FifoRead(r_wbuf_type), !.ins = FALSE,
                       !.addr = FifoRead(r_wbuf_addr),
                       !.wdata = FifoRead(r_wbuf_data), !.wcount = 1]
    ELSE PKeep

PibusReadReq(gnt) == IF gnt THEN [PKeep EXCEPT !.fsm = "PIBUS_READ_AD"] ELSE PKeep

PibusReadAd ==
    [PKeep EXCEPT !.fsm = IF r_pibus_wcount = 1 THEN "PIBUS_READ_DT" ELSE "PIBUS_READ_DTAD"]

\* (bug) a read transaction that ends in error is reported as a success.
PibusReadFailReportsOk == [PKeep EXCEPT !.fsm = "PIBUS_IDLE", !.rsp_ok = TRUE]

\* A read transaction that ends in error or timeout reports the error.
PibusReadFail == [PKeep EXCEPT !.fsm = "PIBUS_IDLE", !.rsp_error = TRUE]

PibusReadDtad(ack) ==
    LET i == BurstLength(r_pibus_opc) - r_pibus_wcount
    IN IF ack = "READY"
       THEN [PKeep EXCEPT !.buf[i] = BusReadWord(i), !.wcount = r_pibus_wcount - 1,
                          !.fsm = IF r_pibus_wcount - 1 = 1 THEN "PIBUS_READ_DT"
                                  ELSE "PIBUS_READ_DTAD"]
       ELSE IF AckIsError(ack) THEN PibusReadFail
       ELSE PKeep

\* (bug) the bus timeout does not end the transaction.
PibusReadDtIgnoresTout(ack) ==
    LET i == BurstLength(r_pibus_opc) - 1
    IN IF ack = "READY"
       THEN [PKeep EXCEPT !.buf[i] = BusReadWord(i), !.wcount = 0,
                          !.fsm = "PIBUS_IDLE", !.rsp_ok = TRUE]
       ELSE IF ack = "ERROR" THEN PibusReadFail
       ELSE PKeep

PibusReadDt(ack) ==
    LET i == BurstLength(r_pibus_opc) - 1
    IN IF ack = "READY"
       THEN [PKeep EXCEPT !.buf[i] = BusReadWord(i), !.wcount = 0,
                          !.fsm = "PIBUS_IDLE", !.rsp_ok = TRUE]
       ELSE IF AckIsError(ack) THEN PibusReadFail
       ELSE PKeep

PibusWriteReq(gnt) == IF gnt THEN [PKeep EXCEPT !.fsm = "PIBUS_WRITE_AD"] ELSE PKeep

PibusWriteAd == [PKeep EXCEPT !.fsm = "PIBUS_WRITE_DT"]

\* (bug) a write transaction that ends in error loses the error.
PibusWriteFailForgets == [PKeep EXCEPT !.fsm = "PIBUS_IDLE", !.pop = TRUE]

\* A write transaction that ends in error sets the BUS_ERROR flip-flop: the
\* error is not signalled at the completion of the write.
PibusWriteFail == [PKeep EXCEPT !.fsm = "PIBUS_IDLE", !.pop = TRUE, !.berr = TRUE]

PibusWriteDt(ack) ==
    IF ack = "READY"
    THEN [PKeep EXCEPT !.fsm = "PIBUS_IDLE", !.pop = TRUE,
                       !.mem = [mem EXCEPT ![r_pibus_addr] = r_pibus_wdata]]
    ELSE IF AckIsError(ack) THEN PibusWriteFail
    ELSE PKeep

PibusFsm(gnt, ack) ==
    CASE r_pibus_fsm = "PIBUS_IDLE" -> PibusIdle
      [] r_pibus_fsm = "PIBUS_READ_REQ" -> PibusReadReq(gnt)
      [] r_pibus_fsm = "PIBUS_READ_AD" -> PibusReadAd
      [] r_pibus_fsm = "PIBUS_READ_DTAD" -> PibusReadDtad(ack)
      [] r_pibus_fsm = "PIBUS_READ_DT" -> PibusReadDt(ack)
      [] r_pibus_fsm = "PIBUS_WRITE_REQ" -> PibusWriteReq(gnt)
      [] r_pibus_fsm = "PIBUS_WRITE_AD" -> PibusWriteAd
      [] r_pibus_fsm = "PIBUS_WRITE_DT" -> PibusWriteDt(ack)

(* ------------------------------------------------------------------ *)
(* SNOOP_FSM                                                           *)
(* ------------------------------------------------------------------ *)
SKeep == [fsm |-> r_snoop_fsm, set_inval |-> FALSE,
          inval_way |-> r_snoop_dcache_inval_way, inval_set |-> r_snoop_dcache_inval_set,
          set_llsc |-> FALSE, set_flush |-> FALSE,
          address_save |-> r_snoop_address_save, hit |-> FALSE]

\* External hit: an external write request on an address held valid by the
\* data cache.
\* (bug) the snoop never sees an external hit.
SnoopExternalHitNever(x) == FALSE
\* (bug) the snoop works although it was disabled at construction.
SnoopExternalHitAlways(x) == x.valid /\ DHit(x.addr)
SnoopExternalHit(x) == m_snoop_active /\ x.valid /\ DHit(x.addr)

\* The reservation is monitored by the same (optional) snoop mechanism.
\* (bug) the writes on the bus are not compared with the reservation.
SnoopLlscHitNever(x) == FALSE
SnoopLlscHit(x) == m_snoop_active /\ x.valid /\ LlscExternalHit(x.addr)

\* (bug) the successive external hits never escalate to a flush.
SnoopIdleNeverFlushes(x) ==
    LET l == [SKeep EXCEPT !.set_llsc = SnoopLlscHit(x)]
    IN IF ~SnoopExternalHit(x) THEN l
       ELSE [l EXCEPT !.fsm = "SNOOP_INVAL", !.set_inval = TRUE, !.hit = TRUE,
                      !.inval_set = DSet(x.addr), !.inval_way = DHitWay(x.addr),
                      !.address_save = x.addr]

\* SNOOP_IDLE: the line of an external hit is invalidated; the hit that makes
\* too many successive external hits flushes the cache instead.
SnoopIdle(x) ==
    LET l == [SKeep EXCEPT !.set_llsc = SnoopLlscHit(x)]
    IN IF ~SnoopExternalHit(x) THEN l
       ELSE IF r_snoop_hit_count + 1 >= SnoopMaxHits
       THEN [l EXCEPT !.fsm = "SNOOP_FLUSH", !.set_flush = TRUE, !.hit = TRUE,
                      !.address_save = x.addr]
       ELSE [l EXCEPT !.fsm = "SNOOP_INVAL", !.set_inval = TRUE, !.hit = TRUE,
                      !.inval_set = DSet(x.addr), !.inval_way = DHitWay(x.addr),
                      !.address_save = x.addr]

\* SNOOP_INVAL: wait until the DCACHE_FSM has invalidated the line; one more
\* external hit on another line cannot be registered and flushes the cache.
SnoopInval(x) ==
    LET l == [SKeep EXCEPT !.set_llsc = SnoopLlscHit(x)]
    IN IF SnoopExternalHit(x)
          /\ ~(DSet(x.addr) = r_snoop_dcache_inval_set
               /\ DHitWay(x.addr) = r_snoop_dcache_inval_way)
       THEN [l EXCEPT !.fsm = "SNOOP_FLUSH", !.set_flush = TRUE, !.hit = TRUE,
                      !.address_save = x.addr]
       ELSE IF ~r_snoop_dcache_inval_req THEN [l EXCEPT !.fsm = "SNOOP_IDLE"]
       ELSE l

\* SNOOP_FLUSH: wait until the DCACHE_FSM has flushed the cache.
SnoopFlush(x) ==
    IF ~r_snoop_flush_req THEN [SKeep EXCEPT !.fsm = "SNOOP_IDLE"] ELSE SKeep

SnoopFsm(x) ==
    CASE r_snoop_fsm = "SNOOP_IDLE" -> SnoopIdle(x)
      [] r_snoop_fsm = "SNOOP_INVAL" -> SnoopInval(x)
      [] r_snoop_fsm = "SNOOP_FLUSH" -> SnoopFlush(x)

(* ------------------------------------------------------------------ *)
(* Environment: the processor, the bus arbiter and targets, the other  *)
(* masters of the bus                                                  *)
(* ------------------------------------------------------------------ *)
\* The processor keeps a request that was not served and is free to issue
\* any request otherwise.
DreqChoices(reqs) ==
    IF m_dreq.valid /\ ~m_drsp.valid THEN {m_dreq}
    ELSE {NoDreq} \cup reqs

IreqChoices(reqs) ==
    IF m_ireq.valid /\ ~m_irsp.valid THEN {m_ireq}
    ELSE {NoIreq} \cup reqs

\* p_gnt is sampled in the REQ states only, p_ack and p_tout in the data states.
GntChoices(gnts) ==
    IF r_pibus_fsm \in {"PIBUS_READ_REQ", "PIBUS_WRITE_REQ"} THEN gnts ELSE {FALSE}

AckChoices(acks) ==
    IF r_pibus_fsm \in {"PIBUS_READ_DTAD", "PIBUS_READ_DT", "PIBUS_WRITE_DT"}
    THEN acks ELSE {"WAIT"}

\* Another master can drive the bus only while this component does not.
ExtChoices(exts) ==
    IF r_pibus_fsm \in {"PIBUS_IDLE", "PIBUS_READ_REQ", "PIBUS_WRITE_REQ"}
    THEN {NoExt} \cup exts ELSE {NoExt}

(* ------------------------------------------------------------------ *)
(* transition(): one clock cycle of the four FSMs                      *)
(* ------------------------------------------------------------------ *)
Flag(set, clear, old) == IF set THEN TRUE ELSE IF clear THEN FALSE ELSE old

WbufNext(f, pop, push, x) ==
    LET g == IF pop THEN FifoGet(f) ELSE f
    IN IF push THEN FifoPut(g, x) ELSE g

\* The way of each set that the last access of the processor used (-1: none):
\* a read served with its word or a store accepted on a line of the cache.
MruNext(old, served, c, a, sets, words) ==
    IF served /\ CacheHit(c, a, sets, words)
    THEN [old EXCEPT ![AddrSet(a, sets, words)] = CacheHitWay(c, a, sets, words)]
    ELSE old

DServed(dq, rsp) ==
    /\ dq.valid /\ rsp.valid /\ DCached(dq.addr)
    /\ IsRead(dq.type) \/ dq.type = "WRITE" \/ rsp.sc = "ok"

IServed(iq, rsp) == iq.valid /\ rsp.valid /\ ICached(iq.addr)

Transition(dq, iq, gnt, ack, x) ==
    \E d \in {DcacheFsm(dq)}, i \in {IcacheFsm(iq)},
       b \in {PibusFsm(gnt, ack)}, n \in {SnoopFsm(x)} :
       /\ m_snoop_active' = m_snoop_active
       /\ m_dreq' = dq
       /\ m_drsp' = d.rsp
       /\ m_ireq' = iq
       /\ m_irsp' = i.rsp
       /\ p_ext' = x
       /\ p_ack' = ack
       \* number of bus transactions accepted and not yet completed
       /\ h_inflight' = h_inflight + (IF b.take # "NONE" THEN 1 ELSE 0)
                                   - (IF b.rsp_ok \/ b.rsp_error \/ b.pop THEN 1 ELSE 0)
       /\ h_mru' = [d |-> MruNext(h_mru.d, DServed(dq, d.rsp), d.cache, dq.addr,
                                  DcacheSets, DcacheWords),
                    i |-> MruNext(h_mru.i, IServed(iq, i.rsp), i.cache, iq.addr,
                                  IcacheSets, IcacheWords)]
       \* DCACHE registers
       /\ r_dcache_fsm' = d.fsm
       /\ r_dcache_save_addr' = d.save_addr
       /\ r_dcache_save_way' = d.save_way
       /\ r_dcache_save_set' = d.save_set
       /\ r_dcache_save_wdata' = d.save_wdata
       /\ r_dcache_save_type' = d.save_type
       /\ r_dcache_miss_req' = Flag(d.set_miss, b.take = "DMISS", r_dcache_miss_req)
       /\ r_dcache_unc_req' = Flag(d.set_unc, b.take = "DUNC", r_dcache_unc_req)
       /\ r_dcache_sc_req' = Flag(d.set_sc, b.take = "WBUF" /\ b.opc = "SC", r_dcache_sc_req)
       /\ r_llsc_pending' = d.llsc_pending
       /\ r_llsc_addr' = d.llsc_addr
       /\ r_dcache' = d.cache
       \* ICACHE registers
       /\ r_icache_fsm' = i.fsm
       /\ r_icache_save_addr' = i.save_addr
       /\ r_icache_save_way' = i.save_way
       /\ r_icache_save_set' = i.save_set
       /\ r_icache_miss_req' = Flag(i.set_miss, b.take = "IMISS", r_icache_miss_req)
       /\ r_icache_unc_req' = Flag(i.set_unc, b.take = "IUNC", r_icache_unc_req)
       /\ r_icache' = i.cache
       \* PIBUS registers
       /\ r_pibus_fsm' = b.fsm
       /\ r_pibus_wcount' = b.wcount
       /\ r_pibus_ins' = b.ins
       /\ r_pibus_addr' = b.addr
       /\ r_pibus_wdata' = b.wdata
       /\ r_pibus_opc' = b.opc
       /\ r_pibus_buf' = b.buf
       /\ r_pibus_rsp_ok' = Flag(b.rsp_ok, d.consume \/ i.consume, r_pibus_rsp_ok)
       /\ r_pibus_rsp_error' = Flag(b.rsp_error, d.consume \/ i.consume, r_pibus_rsp_error)
       /\ r_bus_error' = Flag(b.berr, d.clr_berr, r_bus_error)
       \* write buffer: the three FIFOs are written and read together
       /\ r_wbuf_addr' = WbufNext(r_wbuf_addr, b.pop, d.push, r_dcache_save_addr)
       /\ r_wbuf_data' = WbufNext(r_wbuf_data, b.pop, d.push, r_dcache_save_wdata)
       /\ r_wbuf_type' = WbufNext(r_wbuf_type, b.pop, d.push, r_dcache_save_type)
       \* SNOOP registers
       /\ r_snoop_fsm' = n.fsm
       /\ r_snoop_dcache_inval_req' = Flag(n.set_inval, d.clr_inval, r_snoop_dcache_inval_req)
       /\ r_snoop_dcache_inval_way' = n.inval_way
       /\ r_snoop_dcache_inval_set' = n.inval_set
       /\ r_snoop_llsc_inval_req' = Flag(n.set_llsc, d.clr_llsc, r_snoop_llsc_inval_req)
       /\ r_snoop_flush_req' = Flag(n.set_flush, d.clr_flush, r_snoop_flush_req)
       /\ r_snoop_address_save' = n.address_save
       /\ r_snoop_hit_count' =
             IF d.clr_flush THEN 0
             ELSE LET base == IF d.rsp.valid THEN 0 ELSE r_snoop_hit_count
                  IN IF n.hit /\ base < SnoopMaxHits THEN base + 1 ELSE base
       \* the memory behind the bus
       /\ mem' = IF x.valid THEN [b.mem EXCEPT ![x.addr] = x.data] ELSE b.mem

Reset(active) ==
    /\ m_snoop_active \in active
    /\ m_dreq = NoDreq /\ m_drsp = NoDrsp /\ m_ireq = NoIreq /\ m_irsp = NoIrsp
    /\ p_ext = NoExt /\ p_ack = "WAIT" /\ h_inflight = 0
    /\ h_mru = [d |-> [s \in 0..(DcacheSets - 1) |-> -1],
                i |-> [s \in 0..(IcacheSets - 1) |-> -1]]
    /\ r_dcache_fsm = "DCACHE_IDLE"
    /\ r_dcache_save_addr = 0 /\ r_dcache_save_way = 0 /\ r_dcache_save_set = 0
    /\ r_dcache_save_wdata = 0 /\ r_dcache_save_type = "READ"
    /\ r_dcache_miss_req = FALSE /\ r_dcache_unc_req = FALSE /\ r_dcache_sc_req = FALSE
    /\ r_llsc_pending = FALSE /\ r_llsc_addr = 0
    /\ r_icache_fsm = "ICACHE_IDLE"
    /\ r_icache_save_addr = 0 /\ r_icache_save_way = 0 /\ r_icache_save_set = 0
    /\ r_icache_miss_req = FALSE /\ r_icache_unc_req = FALSE
    /\ r_pibus_fsm = "PIBUS_IDLE"
    /\ r_pibus_wcount = 0 /\ r_pibus_ins = FALSE /\ r_pibus_addr = 0 /\ r_pibus_wdata = 0
    /\ r_pibus_opc = "WRITE" /\ r_pibus_rsp_ok = FALSE /\ r_pibus_rsp_error = FALSE
    /\ r_pibus_buf = [w \in 0..(IF IcacheWords > DcacheWords THEN IcacheWords ELSE DcacheWords) - 1 |-> 0]
    /\ r_snoop_fsm = "SNOOP_IDLE"
    /\ r_snoop_dcache_inval_req = FALSE /\ r_snoop_dcache_inval_way = 0
    /\ r_snoop_dcache_inval_set = 0 /\ r_snoop_llsc_inval_req = FALSE
    /\ r_snoop_flush_req = FALSE /\ r_snoop_address_save = 0 /\ r_snoop_hit_count = 0
    /\ r_wbuf_data = << >> /\ r_wbuf_addr = << >> /\ r_wbuf_type = << >>
    /\ r_icache = CacheReset(IcacheSets, IcacheWays, IcacheWords)
    /\ r_dcache = CacheReset(DcacheSets, DcacheWays, DcacheWords)
    /\ r_bus_error = FALSE
    /\ mem = [a \in DAddr |-> 0]

\* The snoop is active by default; it can be disabled at construction.
Init == Reset({TRUE})
InitSnoop == Reset(BOOLEAN)

\* One cycle under an environment e: the requests the processor may issue,
\* the grants and acknowledges of the bus, the writes of the other masters.
Cycle(e) ==
    \E dq \in DreqChoices(e.dreqs), iq \in IreqChoices(e.ireqs),
       gnt \in GntChoices(e.gnts), ack \in AckChoices(e.acks), x \in ExtChoices(e.exts) :
        Transition(dq, iq, gnt, ack, x)

\* Requests of each kind over a set of addresses.
Reads(A) == {Dreq("READ", a, 0) : a \in A}
Lls(A) == {Dreq("LL", a, 0) : a \in A}
Writes(A) == {Dreq("WRITE", a, v) : a \in A, v \in Data}
Scs(A) == {Dreq("SC", a, 0) : a \in A}
Invals(A) == {Dreq("INVAL", a, 0) : a \in A}
Fetches(A) == {Ireq(a) : a \in A}
ExtWrites(A) == {ExtWrite(a, 1) : a \in A}

\* Stores, LL/SC and loads on two lines of one set, a bus that may delay its
\* grant and its acknowledge.
EnvStore ==
    [dreqs |-> Writes({0}) \cup Scs({0, 2}) \cup Lls({0}) \cup Reads({0}),
     ireqs |-> {}, exts |-> {}, gnts |-> BOOLEAN, acks |-> {"WAIT", "READY"}]

\* Loads on two lines that other masters of the bus write.
EnvSnoop ==
    [dreqs |-> Reads({0, 1}),
     ireqs |-> {}, exts |-> ExtWrites({0, 1}), gnts |-> BOOLEAN,
     acks |-> {"READY"}]

\* LL/SC on a line that other masters of the bus write.
EnvLlsc ==
    [dreqs |-> Lls({0}) \cup Scs({0}),
     ireqs |-> {}, exts |-> ExtWrites({0, 1}), gnts |-> BOOLEAN,
     acks |-> {"READY"}]

\* Fetches, loads and stores, cached and uncached, on a bus whose targets
\* may answer with an error or let the transaction time out.
EnvBus ==
    [dreqs |-> Reads({0, DUncBase}) \cup {Dreq("WRITE", 0, 1)},
     ireqs |-> Fetches({0, IUncBase}), exts |-> {}, gnts |-> BOOLEAN,
     acks |-> {"WAIT", "READY", "ERROR", "TOUT"}]

\* A LL on one line and loads on two other lines of the data cache, which
\* other masters of the bus write (with the value the memory holds).
EnvFlush ==
    [dreqs |-> Lls({2}) \cup Reads({0, 1}),
     ireqs |-> {}, exts |-> {ExtWrite(0, 0), ExtWrite(1, 0)}, gnts |-> {TRUE},
     acks |-> {"READY"}]

\* Loads and fetches on three lines of one set of each cache.
EnvLru ==
    [dreqs |-> Reads({0, 2, 4}),
     ireqs |-> Fetches({0, 2, 4}), exts |-> {}, gnts |-> {TRUE},
     acks |-> {"READY"}]

\* A fetch, a load and a store on one line of each cache, on a bus that may
\* delay its grant and its answer and may answer with an error or a timeout.
EnvLive ==
    [dreqs |-> Reads({0}) \cup {Dreq("WRITE", 0, 1)},
     ireqs |-> Fetches({0}), exts |-> {}, gnts |-> BOOLEAN,
     acks |-> {"WAIT", "READY", "ERROR", "TOUT"}]

\* Loads on the two lines of one set and a store on one of them, while other
\* masters of the bus write both.
EnvMutex ==
    [dreqs |-> Reads({0, 2}) \cup {Dreq("WRITE", 0, 1)},
     ireqs |-> {}, exts |-> {ExtWrite(0, 0), ExtWrite(2, 0)}, gnts |-> {TRUE},
     acks |-> {"READY"}]

\* Loads on three lines of one set of the data cache, a store and a line
\* invalidate command, while other masters of the bus write two of the lines.
EnvTags ==
    [dreqs |-> Reads({0, 2, 4}) \cup {Dreq("WRITE", 0, 0)} \cup Invals({2}),
     ireqs |-> {}, exts |-> {ExtWrite(0, 0), ExtWrite(2, 0)}, gnts |-> {TRUE},
     acks |-> {"READY"}]

Next == Cycle(EnvStore)
NextSnoop == Cycle(EnvSnoop)
NextBus == Cycle(EnvBus)
NextLlsc == Cycle(EnvLlsc)
NextFlush == Cycle(EnvFlush)
NextLru == Cycle(EnvLru)
NextLive == Cycle(EnvLive)
NextMutex == Cycle(EnvMutex)
NextTags == Cycle(EnvTags)

\* The cycles in which the arbiter grants the bus to the waiting PIBUS_FSM,
\* and those in which the target answers the word it is asked for.
BusGrants(e) ==
    /\ r_pibus_fsm \in {"PIBUS_READ_REQ", "PIBUS_WRITE_REQ"}
    /\ \E dq \in DreqChoices(e.dreqs), iq \in IreqChoices(e.ireqs), x \in ExtChoices(e.exts) :
          Transition(dq, iq, TRUE, "WAIT", x)

BusAnswers(e) ==
    /\ r_pibus_fsm \in {"PIBUS_READ_DTAD", "PIBUS_READ_DT", "PIBUS_WRITE_DT"}
    /\ \E dq \in DreqChoices(e.dreqs), iq \in IreqChoices(e.ireqs), x \in ExtChoices(e.exts),
          ack \in e.acks \ {"WAIT"} :
          Transition(dq, iq, FALSE, ack, x)

\* The clock ticks for ever, the arbiter ends up granting the bus and the
\* target ends up answering.
BusFairness(e) ==
    /\ WF_vars(Cycle(e))
    /\ WF_vars(BusGrants(e))
    /\ WF_vars(BusAnswers(e))

Spec == Init /\ [][Next]_vars
SpecSnoop == InitSnoop /\ [][NextSnoop]_vars
SpecLlsc == InitSnoop /\ [][NextLlsc]_vars
SpecBus == Init /\ [][NextBus]_vars
SpecFlush == Init /\ [][NextFlush]_vars
SpecLru == Init /\ [][NextLru]_vars
SpecMutex == Init /\ [][NextMutex]_vars
SpecTags == Init /\ [][NextTags]_vars
SpecBusLive == Init /\ [][NextLive]_vars /\ BusFairness(EnvLive)

(* ------------------------------------------------------------------ *)
(* What one cycle did, read from the registers before and after it     *)
(* ------------------------------------------------------------------ *)
\* The DCACHE_FSM handles a request of type t of the processor in this cycle.
Handled(t) ==
    /\ r_dcache_fsm = "DCACHE_IDLE" /\ ~SnoopReqPending
    /\ m_dreq'.valid /\ m_dreq'.type = t

\* The request of this cycle is left unserved.
Refused == m_dreq'.valid /\ ~m_drsp'.valid

\* A store of the processor is accepted in this cycle.
StoreAccepted ==
    /\ m_dreq'.valid /\ m_drsp'.valid
    /\ \/ m_dreq'.type = "WRITE"
       \/ m_dreq'.type = "SC" /\ m_drsp'.sc = "ok"

\* The entry of the store presented in this cycle.
StoreEntry == [addr |-> m_dreq'.addr, data |-> m_dreq'.wdata, type |-> m_dreq'.type]

\* The write transaction on the bus ends in this cycle.
WriteDone == r_pibus_fsm = "PIBUS_WRITE_DT" /\ r_pibus_fsm' = "PIBUS_IDLE"

\* The write buffer after the bus engine's part of this cycle.
WbufDrained == IF WriteDone THEN Tail(WbufEntries) ELSE WbufEntries

\* The condition of a successful SC, on the registers of the cycle that handles it.
ScCond == r_llsc_pending /\ r_llsc_addr = m_dreq'.addr

(* ------------------------------------------------------------------ *)
(* C1 - Write buffer ordering.  In every cycle the write buffer changes *)
(* only by losing its oldest entry, which is the entry the bus engine   *)
(* has just written on the bus, and by gaining the accepted store at    *)
(* its tail: entries leave in the order they were pushed.  A store      *)
(* attempted while the buffer holds WbufDepth entries is not accepted   *)
(* and pushes, drops and overwrites nothing.                            *)
(* ------------------------------------------------------------------ *)
C1_WriteBufferFifo ==
    [][ /\ WriteDone =>
             /\ WbufEntries # << >>
             /\ Head(WbufEntries) = [addr |-> r_pibus_addr, data |-> r_pibus_wdata,
                                     type |-> r_pibus_opc]
        /\ WbufEntries' = IF StoreAccepted THEN Append(WbufDrained, StoreEntry)
                          ELSE WbufDrained
        /\ Len(WbufEntries) = WbufDepth =>
             /\ ~StoreAccepted
             /\ r_dcache_fsm \in {"DCACHE_WRITE_REQ", "DCACHE_SC_WAIT"} =>
                    Refused /\ r_dcache_fsm' = r_dcache_fsm
        /\ Len(WbufEntries') <= WbufDepth ]_vars

\* A store is refused on a full buffer of two different entries while the
\* oldest is being written on the bus.
C1_Witness ==
    /\ r_dcache_fsm = "DCACHE_WRITE_REQ" /\ m_dreq.valid /\ ~m_drsp.valid
    /\ Len(r_wbuf_addr) = WbufDepth
    /\ WbufEntry(1) # WbufEntry(2)
    /\ r_pibus_fsm = "PIBUS_WRITE_DT"

(* ------------------------------------------------------------------ *)
(* C3 - SC outcome.  The SC handled in a cycle succeeds iff              *)
(* r_llsc_pending is set and r_llsc_addr is its address in that cycle.  *)
(* A success clears the reservation and enqueues exactly one entry of   *)
(* kind SC; a failure is answered at once with the failure result,      *)
(* enqueues nothing and raises no request to the bus engine.            *)
(* ------------------------------------------------------------------ *)
C3_ScOutcome ==
    [][ /\ Handled("SC") /\ ScCond =>
             /\ r_llsc_pending' = FALSE
             /\ r_dcache_fsm' = "DCACHE_SC_WAIT"
             /\ ~m_drsp'.valid
        /\ Handled("SC") /\ ~ScCond =>
             /\ m_drsp' = ScRsp(FALSE)
             /\ r_dcache_fsm' = "DCACHE_IDLE"
             /\ WbufEntries' = WbufDrained
             /\ r_dcache_sc_req' => r_dcache_sc_req
             /\ r_dcache_miss_req' = r_dcache_miss_req
             /\ r_dcache_unc_req' = r_dcache_unc_req
             /\ r_llsc_pending' = r_llsc_pending
        /\ r_dcache_fsm' = "DCACHE_SC_WAIT" =>
             \/ r_dcache_fsm = "DCACHE_SC_WAIT"
             \/ Handled("SC") /\ ScCond
        /\ r_dcache_fsm = "DCACHE_SC_WAIT" =>
             \/ /\ m_drsp'.valid /\ m_drsp'.sc = "ok" /\ ~m_drsp'.error
                /\ m_dreq'.type = "SC"
                /\ r_dcache_fsm' = "DCACHE_IDLE"
                /\ r_dcache_sc_req'
                /\ WbufEntries' = Append(WbufDrained, StoreEntry)
             \/ /\ ~m_drsp'.valid
                /\ r_dcache_fsm' = "DCACHE_SC_WAIT"
                /\ WbufEntries' = WbufDrained
        /\ m_drsp'.sc = "ok" => r_dcache_fsm = "DCACHE_SC_WAIT"
        /\ m_drsp'.sc = "ko" => Handled("SC") /\ ~ScCond ]_vars

\* A SC has just succeeded and its entry is the newest of the write buffer.
C3_Witness ==
    /\ m_dreq.valid /\ m_dreq.type = "SC" /\ m_drsp.valid /\ m_drsp.sc = "ok"
    /\ ~r_llsc_pending
    /\ Len(r_wbuf_addr) > 0
    /\ WbufEntry(Len(r_wbuf_addr)) = [addr |-> m_dreq.addr, data |-> m_dreq.wdata,
                                      type |-> "SC"]

(* ------------------------------------------------------------------ *)
(* C4 - LL/SC single use.  A LL sets the reservation on its address; the *)
(* reservation stays, cycle after cycle, until a SC succeeds, a new LL  *)
(* moves it or a snoop request breaks it; a SC on the reserved          *)
(* address then succeeds and consumes the reservation, and only a LL    *)
(* sets it again: a second SC without a new LL fails.                   *)
(* ------------------------------------------------------------------ *)
C4_LlScSingleUse ==
    [][ /\ Handled("LL") => r_llsc_pending' /\ r_llsc_addr' = m_dreq'.addr
        /\ (r_llsc_pending /\ ~SnoopReqPending /\ ~Handled("LL")
              /\ ~(Handled("SC") /\ ScCond)) =>
             r_llsc_pending' /\ r_llsc_addr' = r_llsc_addr
        /\ Handled("SC") /\ ScCond =>
             r_dcache_fsm' = "DCACHE_SC_WAIT" /\ ~r_llsc_pending'
        /\ (r_dcache_fsm = "DCACHE_SC_WAIT" /\ m_drsp'.valid) => m_drsp'.sc = "ok"
        /\ Handled("SC") /\ ~r_llsc_pending => m_drsp'.valid /\ m_drsp'.sc = "ko"
        /\ ~r_llsc_pending /\ r_llsc_pending' => Handled("LL") ]_vars

\* The second SC on the address fails while the entry of the first one, which
\* succeeded, is still in the write buffer.
C4_Witness ==
    /\ m_dreq.valid /\ m_dreq.type = "SC" /\ m_drsp.valid /\ m_drsp.sc = "ko"
    /\ m_dreq.addr = r_llsc_addr /\ ~r_llsc_pending
    /\ \E i \in 1..Len(r_wbuf_addr) :
          WbufEntry(i).type = "SC" /\ WbufEntry(i).addr = m_dreq.addr

(* ------------------------------------------------------------------ *)
(* C2 - Read after write.  Once every store to an address has been      *)
(* written on the bus (none is left in the write buffer when the cycle *)
(* begins), the memory word is the value of the most recently completed *)
(* write, and a cacheable read of the address served without error in   *)
(* that cycle returns it, whether it hits or is refilled.               *)
(* ------------------------------------------------------------------ *)
StorePending(a) == \E i \in 1..Len(r_wbuf_addr) : r_wbuf_addr[i] = a

ReadStalled ==
    /\ m_dreq'.valid /\ IsRead(m_dreq'.type)
    /\ \/ r_dcache_fsm \in {"DCACHE_MISS_SELECT", "DCACHE_MISS_INVAL",
                            "DCACHE_MISS_WAIT", "DCACHE_UNC_WAIT"}
       \/ /\ r_dcache_fsm = "DCACHE_IDLE"
          /\ ~DCached(m_dreq'.addr) \/ ~DHit(m_dreq'.addr)

\* A write or a SC presented while the write buffer is full.
StoreOnFull ==
    /\ m_dreq'.valid /\ IsStore(m_dreq'.type)
    /\ Len(r_wbuf_addr) = WbufDepth

\* The same, but for the SC that fails, which is answered at once.
StoreStalled ==
    /\ StoreOnFull
    /\ \/ m_dreq'.type = "WRITE"
       \/ r_dcache_fsm = "DCACHE_SC_WAIT"
       \/ ScCond

StoreWaiting ==
    m_dreq'.valid /\ r_dcache_fsm \in {"DCACHE_WRITE_REQ", "DCACHE_SC_WAIT"}

ReservationWritten ==
    p_ext'.valid /\ r_llsc_pending /\ r_llsc_addr = p_ext'.addr

ReservationDoomed == r_snoop_llsc_inval_req \/ r_snoop_flush_req

ReservationBroken ==
    /\ ReservationWritten => (ReservationDoomed' \/ ~r_llsc_pending')
    /\ (ReservationDoomed /\ r_llsc_pending) =>
          /\ (ReservationDoomed' /\ r_llsc_addr' = r_llsc_addr) \/ ~r_llsc_pending'
          /\ r_dcache_fsm' = "DCACHE_SC_WAIT" => r_dcache_fsm = "DCACHE_SC_WAIT"
          /\ m_drsp'.sc = "ok" => r_dcache_fsm = "DCACHE_SC_WAIT"
          /\ r_dcache_fsm = "DCACHE_IDLE" => ~r_llsc_pending'
    /\ ~r_llsc_pending /\ r_llsc_pending' => Handled("LL")
    /\ Handled("SC") /\ ~r_llsc_pending => m_drsp'.valid /\ m_drsp'.sc = "ko"

CachedAddrs == {a \in DAddr : DCached(a)}

LineDoomed(a) ==
    /\ DHit(a)
    /\ \/ r_snoop_flush_req
       \/ /\ r_snoop_dcache_inval_req
          /\ r_snoop_dcache_inval_set = DSet(a)
          /\ r_snoop_dcache_inval_way = DHitWay(a)

ReadServed(a) ==
    m_dreq'.valid /\ m_drsp'.valid /\ IsRead(m_dreq'.type) /\ m_dreq'.addr = a

C10_SnoopInvalidation ==
    [][ m_snoop_active =>
          /\ \A a \in {c \in CachedAddrs : DHit(c)} :
                /\ (p_ext'.valid /\ p_ext'.addr = a) =>
                      (~DHit(a)' \/ LineDoomed(a)')
                /\ LineDoomed(a) =>
                      /\ ~DHit(a)' \/ LineDoomed(a)'
                      /\ ~ReadServed(a)
                      /\ r_dcache_fsm = "DCACHE_IDLE" =>
                            IF r_snoop_flush_req THEN ~DHit(a)'
                            ELSE r_dcache_fsm' = "DCACHE_INVAL"
                      /\ (r_dcache_fsm = "DCACHE_INVAL" /\ r_snoop_dcache_inval_req
                            /\ ~r_snoop_flush_req) => ~DHit(a)'
          /\ ((Handled("READ") \/ Handled("LL")) /\ DCached(m_dreq'.addr)
                /\ ~DHit(m_dreq'.addr)) =>
                /\ ~m_drsp'.valid
                /\ r_dcache_fsm' = "DCACHE_MISS_SELECT" ]_vars

\* The read of a line that hit before and that the snoop has invalidated for
\* the write of another master starts a refill.
C10_Witness ==
    /\ m_snoop_active
    /\ r_dcache_fsm = "DCACHE_MISS_SELECT"
    /\ m_dreq.valid /\ m_dreq.type = "READ" /\ m_dreq.addr = r_snoop_address_save
    /\ r_snoop_hit_count >= 1
    /\ mem[m_dreq.addr] = 1
    /\ ~DHit(m_dreq.addr)
    /\ ~r_snoop_flush_req /\ r_snoop_fsm = "SNOOP_IDLE"

(* ------------------------------------------------------------------ *)
(* C6 - Precise read errors.  A read transaction that the target ends   *)
(* with an error or a timeout reports the error, and not a success, to  *)
(* the controller that issued it; the controller, still waiting on the  *)
(* request that missed, goes to its ERROR state and answers that same   *)
(* request with the bus error; from the failing cycle to the answer the *)
(* cache is not written, and a line is filled only on a success.        *)
(* ------------------------------------------------------------------ *)
ReadFailed ==
    /\ r_pibus_fsm \in {"PIBUS_READ_DTAD", "PIBUS_READ_DT"}
    /\ p_ack' \in {"ERROR", "TOUT"}

WriteFailed == r_pibus_fsm = "PIBUS_WRITE_DT" /\ p_ack' \in {"ERROR", "TOUT"}

ReadCompleted == m_drsp'.valid /\ m_dreq'.valid /\ IsRead(m_dreq'.type)

C7_ImpreciseWriteErrors ==
    [][ /\ WriteFailed =>
             /\ r_bus_error'
             /\ ~r_pibus_rsp_error' \/ r_pibus_rsp_error
             /\ ~r_pibus_rsp_ok' \/ r_pibus_rsp_ok
             /\ r_pibus_fsm' = "PIBUS_IDLE"
             /\ WbufEntries' = Tail(WbufEntries) \/ StoreAccepted
             /\ mem' = mem
        /\ (m_drsp'.valid /\ ~ReadCompleted) => ~m_drsp'.error
        /\ ReadCompleted =>
             /\ m_drsp'.error <=> (r_bus_error \/ r_dcache_fsm = "DCACHE_ERROR")
             /\ r_bus_error' <=> WriteFailed
        /\ ~ReadCompleted => (r_bus_error' <=> (r_bus_error \/ WriteFailed)) ]_vars

\* A read that hits reports the error of a write that failed before: the
\* write did not reach the memory and nothing is left in the write buffer.
C7_Witness ==
    /\ m_dreq.valid /\ m_dreq.type = "READ" /\ m_dreq.addr = 0
    /\ m_drsp.valid /\ m_drsp.error /\ m_drsp.rdata = 1
    /\ mem[0] = 0
    /\ ~r_bus_error
    /\ r_wbuf_addr = << >>

(* ------------------------------------------------------------------ *)
(* C9 - Single bus slot.  At most one bus transaction is in flight, and *)
(* one is in flight exactly while the PIBUS_FSM is out of PIBUS_IDLE;   *)
(* a request (instruction miss or uncached, data miss or uncached,     *)
(* write, SC) is accepted only in PIBUS_IDLE; the registers of the      *)
(* transaction are kept until it ends; the PIBUS_FSM returns to        *)
(* PIBUS_IDLE only by completing the transaction: a response to the     *)
(* controller that waits for the read, or the removal of the write from *)
(* the write buffer.                                                    *)
(* ------------------------------------------------------------------ *)
PibusBusy == r_pibus_fsm # "PIBUS_IDLE"

RequestTaken ==
    \/ r_dcache_miss_req /\ ~r_dcache_miss_req'
    \/ r_dcache_unc_req /\ ~r_dcache_unc_req'
    \/ r_icache_miss_req /\ ~r_icache_miss_req'
    \/ r_icache_unc_req /\ ~r_icache_unc_req'
    \/ r_dcache_sc_req /\ ~r_dcache_sc_req'

C9_SingleBusSlot ==
    [][ /\ h_inflight' \in {0, 1}
        /\ h_inflight' = 1 <=> PibusBusy'
        /\ h_inflight' > h_inflight => ~PibusBusy
        /\ RequestTaken => (~PibusBusy /\ PibusBusy')
        /\ PibusBusy =>
             /\ r_pibus_addr' = r_pibus_addr /\ r_pibus_opc' = r_pibus_opc
             /\ r_pibus_ins' = r_pibus_ins /\ r_pibus_wdata' = r_pibus_wdata
             /\ ~PibusBusy' =>
                  /\ r_pibus_fsm \in {"PIBUS_READ_DTAD", "PIBUS_READ_DT", "PIBUS_WRITE_DT"}
                  /\ p_ack' \in {"READY", "ERROR", "TOUT"}
                  /\ IF r_pibus_fsm = "PIBUS_WRITE_DT"
                     THEN WbufEntries # << >>
                          /\ Head(WbufEntries) = [addr |-> r_pibus_addr,
                                                  data |-> r_pibus_wdata,
                                                  type |-> r_pibus_opc]
                          /\ WbufDrained = Tail(WbufEntries)
                     ELSE r_pibus_rsp_ok' \/ r_pibus_rsp_error'
             /\ PibusBusy' => ~(r_pibus_rsp_ok' /\ ~r_pibus_rsp_ok)
                              /\ ~(r_pibus_rsp_error' /\ ~r_pibus_rsp_error)
                              /\ Len(WbufEntries') >= Len(WbufEntries) ]_vars

\* An instruction miss and a buffered write wait for the bus engine, which
\* serves a data read.
C9_Witness ==
    /\ r_pibus_fsm = "PIBUS_READ_DT" /\ ~r_pibus_ins
    /\ h_inflight = 1
    /\ r_icache_miss_req
    /\ Len(r_wbuf_addr) > 0

(* ------------------------------------------------------------------ *)
(* C11 - Flush escalation.  The snoop counts the external hits that no  *)
(* served processor access separates.  The hit that brings the count to *)
(* SnoopMaxHits, on a line other than the one already under             *)
(* invalidation, takes the SNOOP_FSM to SNOOP_FLUSH and posts the flush *)
(* request; the request stays posted until the DCACHE_FSM is in         *)
(* DCACHE_IDLE, where it is handled before any processor request: after *)
(* that cycle every line of the data cache is invalid and the           *)
(* reservation is not pending, so that no cacheable address hits and    *)
(* the read handled next is a miss.                                     *)
(* ------------------------------------------------------------------ *)
\* A write of another master hits a valid line of the data cache.
ExternalHit == m_snoop_active /\ p_ext'.valid /\ DHit(p_ext'.addr)

\* The line hit is not the one the snoop is already having invalidated.
ExternalHitCounted ==
    /\ ExternalHit
    /\ \/ r_snoop_fsm = "SNOOP_IDLE"
       \/ /\ r_snoop_fsm = "SNOOP_INVAL"
          /\ ~(DSet(p_ext'.addr) = r_snoop_dcache_inval_set
               /\ DHitWay(p_ext'.addr) = r_snoop_dcache_inval_way)

\* A request of the processor is served in this cycle.
LocalAccess == m_dreq'.valid /\ m_drsp'.valid

AllInvalid(c) == \A s \in DOMAIN c.line : \A w \in DOMAIN c.line[s] : ~c.line[s][w].valid

FlushHandled == r_snoop_flush_req /\ r_dcache_fsm = "DCACHE_IDLE"

C11_FlushEscalation ==
    [][ /\ r_snoop_hit_count' =
              IF FlushHandled THEN 0
              ELSE LET base == IF LocalAccess THEN 0 ELSE r_snoop_hit_count
                   IN IF ExternalHitCounted /\ base < SnoopMaxHits THEN base + 1 ELSE base
        /\ (ExternalHitCounted /\ r_snoop_hit_count + 1 >= SnoopMaxHits) =>
              /\ r_snoop_fsm' = "SNOOP_FLUSH"
              /\ r_snoop_flush_req'
        /\ r_snoop_fsm' = "SNOOP_FLUSH" =>
              r_snoop_fsm = "SNOOP_FLUSH" \/ (ExternalHitCounted /\ r_snoop_flush_req')
        /\ r_snoop_flush_req =>
              /\ r_snoop_fsm = "SNOOP_FLUSH"
              /\ ~FlushHandled => r_snoop_flush_req' /\ r_snoop_fsm' = "SNOOP_FLUSH"
              /\ FlushHandled =>
                    /\ AllInvalid(r_dcache')
                    /\ \A a \in CachedAddrs : ~DHit(a)'
                    /\ ~r_llsc_pending'
                    /\ ~r_snoop_flush_req'
                    /\ ~m_drsp'.valid
                    /\ r_dcache_fsm' = "DCACHE_IDLE"
        /\ ((Handled("READ") \/ Handled("LL")) /\ DCached(m_dreq'.addr)
              /\ AllInvalid(r_dcache)) =>
              /\ ~m_drsp'.valid
              /\ r_dcache_fsm' = "DCACHE_MISS_SELECT" ]_vars

\* After SnoopMaxHits writes of other masters that hit two lines, the flush has
\* just been done: the cache is empty and the reservation of the LL, on an
\* address that no other master wrote, is lost.
C11_Witness ==
    /\ r_snoop_fsm = "SNOOP_FLUSH" /\ ~r_snoop_flush_req
    /\ AllInvalid(r_dcache)
    /\ r_snoop_address_save \in {0, 1}
    /\ r_llsc_addr = 2 /\ ~r_llsc_pending
    /\ ~r_snoop_llsc_inval_req
    /\ r_snoop_hit_count = 0

(* ------------------------------------------------------------------ *)
(* C12 - Snoop disabled.  With m_snoop_active false the SNOOP_FSM is in *)
(* SNOOP_IDLE in every reachable state, and neither the invalidation    *)
(* request of the data cache nor the flush request is ever set (no hit  *)
(* is counted either), whatever the other masters write on the bus.     *)
(* ------------------------------------------------------------------ *)
C12_SnoopDisabled ==
    ~m_snoop_active =>
        /\ r_snoop_fsm = "SNOOP_IDLE"
        /\ ~r_snoop_dcache_inval_req
        /\ ~r_snoop_flush_req
        /\ r_snoop_hit_count = 0

\* With the snoop disabled, another master has just written a line that the
\* data cache holds: the line stays valid with the old word.
C12_Witness ==
    /\ ~m_snoop_active
    /\ p_ext.valid /\ DHit(p_ext.addr)
    /\ mem[p_ext.addr] = p_ext.data
    /\ DRead(p_ext.addr) # mem[p_ext.addr]
    /\ r_dcache_fsm = "DCACHE_IDLE"

(* ------------------------------------------------------------------ *)
(* C13 - Pseudo-LRU replacement.  From the empty caches of the reset,   *)
(* with no invalidation: a miss on a set that has a free way fills a    *)
(* free way and no valid line of the set is lost, so the first          *)
(* accesses with distinct tags, as many as there are ways, all stay     *)
(* valid; a miss on a full set evicts the way that the pseudo-LRU bits  *)
(* of the set select, and that way is never the one the last access to  *)
(* the set used.  Stated for the data cache and the instruction cache.  *)
(* ------------------------------------------------------------------ *)
SetFull(c, s) == \A w \in CacheWays(c, s) : c.line[s][w].valid

\* The valid line of way w of set s is lost in this cycle: invalidated or
\* overwritten with another tag.
Evicted(c, cn, s, w) ==
    /\ c.line[s][w].valid
    /\ ~cn.line[s][w].valid \/ cn.line[s][w].tag # c.line[s][w].tag

\* What the claim says of one cache: c before and cn after the cycle, mru
\* the way last used in each set, sel the controller in MISS_SELECT on set
\* ss, vic the victim it latches and inval whether it goes to MISS_INVAL.
LruReplacement(c, cn, mru, sel, ss, vic, inval) ==
    /\ \A s \in DOMAIN c.line : \A w \in CacheWays(c, s) :
          Evicted(c, cn, s, w) =>
              /\ SetFull(c, s)
              /\ w = CacheSelect(c, s)
              /\ w # mru[s]
    /\ sel =>
          /\ vic = CacheSelect(c, ss)
          /\ vic # mru[ss]
          /\ inval <=> SetFull(c, ss)
          /\ ~SetFull(c, ss) => ~c.line[ss][vic].valid

C13_PseudoLru ==
    [][ /\ LruReplacement(r_dcache, r_dcache', h_mru.d,
                          r_dcache_fsm = "DCACHE_MISS_SELECT", DSet(r_dcache_save_addr),
                          r_dcache_save_way', r_dcache_fsm' = "DCACHE_MISS_INVAL")
        /\ LruReplacement(r_icache, r_icache', h_mru.i,
                          r_icache_fsm = "ICACHE_MISS_SELECT", ISet(r_icache_save_addr),
                          r_icache_save_way', r_icache_fsm' = "ICACHE_MISS_INVAL")
        /\ r_dcache_fsm = "DCACHE_MISS_UPDT" =>
              /\ ~r_dcache.line[r_dcache_save_set][r_dcache_save_way].valid
              /\ r_dcache'.line[r_dcache_save_set][r_dcache_save_way].valid
              /\ h_mru.d'[r_dcache_save_set] = r_dcache_save_way
        /\ r_icache_fsm = "ICACHE_MISS_UPDT" =>
              /\ ~r_icache.line[r_icache_save_set][r_icache_save_way].valid
              /\ r_icache'.line[r_icache_save_set][r_icache_save_way].valid
              /\ h_mru.i'[r_icache_save_set] = r_icache_save_way ]_vars

\* Set 0 of the data cache after loads of tags 0, 1 and 2: the third load has
\* just been served from way 0, where it replaced tag 0, and tag 1, used
\* last before it, is still in way 1.
C13_Witness ==
    /\ m_dreq.valid /\ m_dreq.addr = 4 /\ m_drsp.valid
    /\ r_dcache.line[0][0].valid /\ r_dcache.line[0][0].tag = 2
    /\ r_dcache.line[0][1].valid /\ r_dcache.line[0][1].tag = 1
    /\ h_mru.d[0] = 0
    /\ ~DHit(0)

(* ------------------------------------------------------------------ *)
(* C14 - Miss then hit.  A cacheable read that misses is not served and *)
(* posts one DMISS request, when the DCACHE_FSM enters                  *)
(* DCACHE_MISS_WAIT; the bus engine accepts it once, and while the      *)
(* DCACHE_FSM waits exactly one of these holds: the request is posted,  *)
(* the line fill is on the bus, its completion is reported.  On a       *)
(* success DCACHE_MISS_UPDT writes the line and serves the read with    *)
(* the word of the buffer, and the address then hits.  A read that hits *)
(* is served in the same cycle with the word of the line and posts no   *)
(* request; the word of a line does not change while the address keeps  *)
(* hitting, and an address stops hitting only by an invalidation, a     *)
(* flush or the eviction of a miss.                                     *)
(* ------------------------------------------------------------------ *)
ReadHandled == (Handled("READ") \/ Handled("LL")) /\ DCached(m_dreq'.addr)

\* The line fills of the data cache requested, on the bus or reported.
FillsInProgress ==
    (IF r_dcache_miss_req THEN 1 ELSE 0)
    + (IF r_pibus_fsm # "PIBUS_IDLE" /\ r_pibus_opc = "DMISS" THEN 1 ELSE 0)
    + (IF (r_pibus_rsp_ok \/ r_pibus_rsp_error) /\ ~r_pibus_ins THEN 1 ELSE 0)

DmissAccepted ==
    r_pibus_fsm = "PIBUS_IDLE" /\ r_pibus_fsm' = "PIBUS_READ_REQ" /\ r_pibus_opc' = "DMISS"

C14_MissThenHit ==
    [][ /\ (ReadHandled /\ ~DHit(m_dreq'.addr)) =>
              /\ ~m_drsp'.valid
              /\ r_dcache_fsm' = "DCACHE_MISS_SELECT"
              /\ r_dcache_save_addr' = m_dreq'.addr
              /\ ~r_dcache_miss_req'
        /\ (r_dcache_miss_req' /\ ~r_dcache_miss_req) <=>
              (r_dcache_fsm \in {"DCACHE_MISS_SELECT", "DCACHE_MISS_INVAL"}
                 /\ r_dcache_fsm' = "DCACHE_MISS_WAIT")
        /\ r_dcache_fsm' = "DCACHE_MISS_WAIT" =>
              r_dcache_fsm \in {"DCACHE_MISS_SELECT", "DCACHE_MISS_INVAL", "DCACHE_MISS_WAIT"}
        /\ DmissAccepted <=> (r_dcache_miss_req /\ ~r_dcache_miss_req')
        /\ DmissAccepted =>
              /\ r_dcache_fsm = "DCACHE_MISS_WAIT"
              /\ r_pibus_addr' = LineBase(r_dcache_save_addr, DcacheWords)
              /\ ~r_pibus_ins'
        /\ r_dcache_fsm = "DCACHE_MISS_WAIT" =>
              /\ FillsInProgress = 1
              /\ m_dreq'.valid /\ m_dreq'.addr = r_dcache_save_addr
              /\ ~m_drsp'.valid
              /\ r_dcache_save_addr' = r_dcache_save_addr
              /\ r_dcache_fsm' = IF r_pibus_ins THEN "DCACHE_MISS_WAIT"
                                 ELSE IF r_pibus_rsp_ok THEN "DCACHE_MISS_UPDT"
                                 ELSE IF r_pibus_rsp_error THEN "DCACHE_ERROR"
                                 ELSE "DCACHE_MISS_WAIT"
        /\ r_dcache_fsm # "DCACHE_MISS_WAIT" => ~r_dcache_miss_req
        /\ r_dcache_fsm = "DCACHE_MISS_UPDT" =>
              /\ m_dreq'.valid /\ m_dreq'.addr = r_dcache_save_addr
              /\ m_drsp'.valid
              /\ m_drsp'.rdata = r_pibus_buf[DWord(r_dcache_save_addr)]
              /\ CacheHit(r_dcache', m_dreq'.addr, DcacheSets, DcacheWords)
              /\ CacheRead(r_dcache', m_dreq'.addr, DcacheSets, DcacheWords) = m_drsp'.rdata
              /\ r_dcache_fsm' = "DCACHE_IDLE"
              /\ FillsInProgress' = 0
        /\ (ReadHandled /\ DHit(m_dreq'.addr)) =>
              /\ m_drsp'.valid
              /\ m_drsp'.rdata = DRead(m_dreq'.addr)
              /\ r_dcache_fsm' = "DCACHE_IDLE"
              /\ ~r_dcache_miss_req' /\ ~r_dcache_unc_req'
              /\ ~DmissAccepted
              /\ CacheHit(r_dcache', m_dreq'.addr, DcacheSets, DcacheWords)
              /\ CacheRead(r_dcache', m_dreq'.addr, DcacheSets, DcacheWords) = m_drsp'.rdata
        /\ \A a \in {c \in CachedAddrs : DHit(c)} :
              IF CacheHit(r_dcache', a, DcacheSets, DcacheWords)
              THEN \/ CacheRead(r_dcache', a, DcacheSets, DcacheWords) = DRead(a)
                   \/ r_dcache_fsm \in {"DCACHE_WRITE_UPDT", "DCACHE_SC_WAIT"}
              ELSE \/ r_dcache_fsm \in {"DCACHE_MISS_INVAL", "DCACHE_INVAL"}
                   \/ FlushHandled ]_vars

\* The read of address 0 is served with the word of its line, which is not
\* the word of the memory any more, while the last transaction of the bus
\* engine was the line fill of address 1: the read is a hit.
C14_Witness ==
    /\ m_dreq.valid /\ m_dreq.type = "READ" /\ m_dreq.addr = 0
    /\ m_drsp.valid /\ m_drsp.rdata = 0 /\ mem[0] = 1
    /\ DHit(0) /\ DRead(0) = 0
    /\ r_pibus_fsm = "PIBUS_IDLE" /\ r_pibus_opc = "DMISS" /\ r_pibus_addr = 1
    /\ r_pibus_buf[0] = 1
    /\ h_inflight = 0

(* ------------------------------------------------------------------ *)
(* C15 - Write-through without allocation.  An accepted store appends   *)
(* exactly one entry, its own, to the write buffer, whether its address *)
(* hits or not.  A handled write goes through DCACHE_WRITE_UPDT exactly *)
(* when its address hits; from the cycle that handles a store to the    *)
(* cycle that accepts it, the valid bits and tags of the data cache do  *)
(* not change (no line is allocated, validated or evicted) and the only *)
(* change of the cache is the word of the store written in the line it  *)
(* hits: a store that misses leaves the whole cache as it was.          *)
(* ------------------------------------------------------------------ *)
\* The valid bits and the tags of a cache.
CacheDirectory(c) ==
    [s \in DOMAIN c.line |->
        [w \in DOMAIN c.line[s] |-> << c.line[s][w].valid, c.line[s][w].tag >>]]

\* The lines of c with word v written at address a, which hits.
LinesWritten(c, a, v) ==
    [c.line EXCEPT ![DSet(a)][CacheHitWay(c, a, DcacheSets, DcacheWords)].data[DWord(a)] = v]

StoreInProgress ==
    \/ Handled("WRITE") \/ Handled("SC")
    \/ r_dcache_fsm \in {"DCACHE_WRITE_UPDT", "DCACHE_WRITE_REQ", "DCACHE_SC_WAIT"}

C15_WriteThroughNoAllocate ==
    [][ /\ StoreAccepted =>
              /\ Len(WbufEntries') = Len(WbufDrained) + 1
              /\ WbufEntries'[Len(WbufEntries')] = StoreEntry
              /\ SubSeq(WbufEntries', 1, Len(WbufDrained)) = WbufDrained
        /\ Handled("WRITE") =>
              /\ r_dcache' = r_dcache
              /\ r_dcache_fsm' = IF DHit(m_dreq'.addr) THEN "DCACHE_WRITE_UPDT"
                                 ELSE "DCACHE_WRITE_REQ"
        /\ Handled("SC") => r_dcache' = r_dcache
        /\ r_dcache_fsm' = "DCACHE_WRITE_UPDT" => Handled("WRITE") /\ DHit(m_dreq'.addr)
        /\ r_dcache_fsm = "DCACHE_WRITE_UPDT" =>
              /\ DHit(r_dcache_save_addr)
              /\ r_dcache'.line = LinesWritten(r_dcache, r_dcache_save_addr, r_dcache_save_wdata)
              /\ r_dcache_fsm' = "DCACHE_WRITE_REQ"
              /\ m_dreq'.addr = r_dcache_save_addr /\ m_dreq'.wdata = r_dcache_save_wdata
        /\ r_dcache_fsm = "DCACHE_WRITE_REQ" => r_dcache' = r_dcache
        /\ r_dcache_fsm = "DCACHE_SC_WAIT" =>
              IF m_drsp'.valid /\ DHit(r_dcache_save_addr)
              THEN r_dcache'.line = LinesWritten(r_dcache, r_dcache_save_addr, r_dcache_save_wdata)
              ELSE r_dcache' = r_dcache
        /\ StoreInProgress => CacheDirectory(r_dcache') = CacheDirectory(r_dcache)
        /\ (StoreAccepted /\ ~DHit(m_dreq'.addr)) => r_dcache' = r_dcache ]_vars

\* A write of 1 at address 0 has just been accepted on an empty data cache:
\* its entry is in the write buffer and the cache is still empty.
C15_Witness ==
    /\ m_dreq.valid /\ m_dreq.type = "WRITE" /\ m_dreq.addr = 0 /\ m_dreq.wdata = 1
    /\ m_drsp.valid
    /\ r_dcache = CacheReset(DcacheSets, DcacheWays, DcacheWords)
    /\ Len(r_wbuf_addr) > 0
    /\ WbufEntry(Len(r_wbuf_addr)) = [addr |-> 0, data |-> 1, type |-> "WRITE"]
    /\ mem[0] = 0

(* ------------------------------------------------------------------ *)
(* C16 - Transaction completion.  With a bus that ends up granting and  *)
(* answering, the PIBUS_FSM that has left PIBUS_IDLE comes back to it.  *)
(* It comes back only from a data state, on an acknowledge, an error or *)
(* a timeout, and then reports one outcome: for a read one of           *)
(* r_pibus_rsp_ok and r_pibus_rsp_error, raised from clear, the error   *)
(* for an error or a timeout; for a write the removal of its entry,     *)
(* with the memory written on an acknowledge and the r_bus_error        *)
(* flip-flop set on an error or a timeout.  An error or a timeout ends  *)
(* the transaction at once, and no outcome is reported meanwhile.       *)
(* ------------------------------------------------------------------ *)
Completes == PibusBusy /\ ~PibusBusy'

ReadOutcome ==
    /\ r_pibus_fsm \in {"PIBUS_READ_DTAD", "PIBUS_READ_DT"}
    /\ ~r_pibus_rsp_ok /\ ~r_pibus_rsp_error
    /\ r_pibus_ins' = r_pibus_ins
    /\ IF p_ack' = "READY"
       THEN r_pibus_fsm = "PIBUS_READ_DT" /\ r_pibus_rsp_ok' /\ ~r_pibus_rsp_error'
       ELSE p_ack' \in {"ERROR", "TOUT"} /\ r_pibus_rsp_error' /\ ~r_pibus_rsp_ok'

WriteOutcome ==
    /\ r_pibus_fsm = "PIBUS_WRITE_DT"
    /\ WbufEntries # << >>
    /\ WbufEntries' = IF StoreAccepted THEN Append(Tail(WbufEntries), StoreEntry)
                      ELSE Tail(WbufEntries)
    /\ r_pibus_rsp_ok' => r_pibus_rsp_ok
    /\ r_pibus_rsp_error' => r_pibus_rsp_error
    /\ IF p_ack' = "READY"
       THEN mem' = [mem EXCEPT ![r_pibus_addr] = r_pibus_wdata] /\ (r_bus_error' => r_bus_error)
       ELSE p_ack' \in {"ERROR", "TOUT"} /\ r_bus_error' /\ mem' = mem

C16_TransactionCompletion ==
    /\ [][ /\ Completes => (ReadOutcome \/ WriteOutcome)
           /\ (PibusBusy /\ PibusBusy') =>
                 /\ r_pibus_rsp_ok' => r_pibus_rsp_ok
                 /\ r_pibus_rsp_error' => r_pibus_rsp_error
                 /\ r_bus_error' => r_bus_error
                 /\ Len(WbufEntries') >= Len(WbufEntries)
                 /\ mem' = mem
           /\ (r_pibus_fsm \in {"PIBUS_READ_DTAD", "PIBUS_READ_DT", "PIBUS_WRITE_DT"}
                 /\ p_ack' \in {"ERROR", "TOUT"}) => Completes
           /\ (r_pibus_fsm \in {"PIBUS_READ_DT", "PIBUS_WRITE_DT"} /\ p_ack' = "READY")
                 => Completes ]_vars
    /\ (PibusBusy ~> ~PibusBusy)

\* The line fill of an instruction miss has just ended on a timeout at its
\* second word: the bus engine is back in PIBUS_IDLE with the error reported
\* to the ICACHE_FSM.
C16_Witness ==
    /\ r_pibus_fsm = "PIBUS_IDLE" /\ p_ack = "TOUT"
    /\ r_pibus_opc = "IMISS" /\ r_pibus_ins /\ r_pibus_wcount = 1
    /\ r_pibus_rsp_error /\ ~r_pibus_rsp_ok
    /\ r_icache_fsm = "ICACHE_MISS_WAIT"
    /\ h_inflight = 0

(* ------------------------------------------------------------------ *)
(* C17 - Snoop and DCACHE_FSM on the data cache.  An invalidation       *)
(* request of the snoop stays posted, on the same set and way, until    *)
(* the DCACHE_FSM performs it; the DCACHE_FSM only completes the access *)
(* it has in progress, and back in DCACHE_IDLE it serves no request and *)
(* starts no access before the invalidation (or the flush) is done.     *)
(* The cycle that invalidates for the snoop changes nothing else in the *)
(* cache, and the cycles in which the DCACHE_FSM fills or updates a     *)
(* line for the processor invalidate no other line and consume no       *)
(* request of the snoop: the only line they invalidate is their own     *)
(* (the victim of a miss, the line of an invalidate command).           *)
(* ------------------------------------------------------------------ *)
SnoopInvalidates ==
    \/ r_dcache_fsm = "DCACHE_INVAL" /\ r_snoop_dcache_inval_req
    \/ FlushHandled

\* The DCACHE_FSM writes the cache for the processor in this cycle.
OwnUpdate ==
    /\ r_dcache' # r_dcache
    /\ ~SnoopInvalidates

\* cn is c with some valid bits cleared and nothing else changed.
OnlyInvalidated(c, cn, gone) ==
    /\ cn.lru = c.lru
    /\ \A s \in DOMAIN c.line : \A w \in DOMAIN c.line[s] :
          cn.line[s][w] = IF << s, w >> \in gone THEN [c.line[s][w] EXCEPT !.valid = FALSE]
                          ELSE c.line[s][w]

AllWays(c) == {<< s, w >> : s \in DOMAIN c.line, w \in DOMAIN c.line[0]}

C17_SnoopMutualExclusion ==
    [][ /\ r_snoop_dcache_inval_req =>
              /\ r_snoop_fsm \in {"SNOOP_INVAL", "SNOOP_FLUSH"}
              /\ ~SnoopInvalidates =>
                    /\ r_snoop_dcache_inval_req'
                    /\ r_snoop_dcache_inval_set' = r_snoop_dcache_inval_set
                    /\ r_snoop_dcache_inval_way' = r_snoop_dcache_inval_way
              /\ r_dcache_fsm = "DCACHE_IDLE" =>
                    /\ ~m_drsp'.valid
                    /\ r_dcache_fsm' = IF r_snoop_flush_req THEN "DCACHE_IDLE" ELSE "DCACHE_INVAL"
                    /\ ~r_dcache_miss_req' /\ ~r_dcache_unc_req'
                    /\ r_dcache_save_addr' = r_dcache_save_addr
              /\ r_dcache_fsm = "DCACHE_INVAL" =>
                    /\ ~m_drsp'.valid
                    /\ r_dcache_fsm' = "DCACHE_IDLE"
                    /\ ~r_snoop_dcache_inval_req'
              /\ r_dcache_fsm' \notin {"DCACHE_MISS_SELECT", "DCACHE_WRITE_UPDT"}
              /\ r_dcache_fsm' \in {"DCACHE_WRITE_REQ", "DCACHE_SC_WAIT", "DCACHE_UNC_WAIT"} =>
                    r_dcache_fsm \in {"DCACHE_WRITE_UPDT", r_dcache_fsm'}
        /\ (r_dcache_fsm = "DCACHE_INVAL" /\ r_snoop_dcache_inval_req) =>
              OnlyInvalidated(r_dcache, r_dcache',
                              {<< r_snoop_dcache_inval_set, r_snoop_dcache_inval_way >>})
        /\ FlushHandled => OnlyInvalidated(r_dcache, r_dcache', AllWays(r_dcache))
        /\ OwnUpdate =>
              /\ r_snoop_dcache_inval_req => r_snoop_dcache_inval_req'
              /\ r_snoop_flush_req => r_snoop_flush_req'
              /\ r_dcache_fsm \in {"DCACHE_IDLE", "DCACHE_MISS_INVAL", "DCACHE_MISS_UPDT",
                                    "DCACHE_WRITE_UPDT", "DCACHE_SC_WAIT", "DCACHE_INVAL"}
              /\ r_dcache_fsm = "DCACHE_IDLE" => ~SnoopReqPending
              /\ \A s \in DOMAIN r_dcache.line : \A w \in DOMAIN r_dcache.line[s] :
                    (r_dcache.line[s][w].valid /\ ~r_dcache'.line[s][w].valid) =>
                        /\ r_dcache_fsm \in {"DCACHE_MISS_INVAL", "DCACHE_INVAL"}
                        /\ s = r_dcache_save_set /\ w = r_dcache_save_way ]_vars

\* The snoop has posted the invalidation of the line of address 0 while the
\* DCACHE_FSM was updating that line for a store of the processor: the store
\* has just been accepted, the line holds its word and the invalidation is
\* still to be done.
C17_Witness ==
    /\ r_snoop_dcache_inval_req /\ ~r_snoop_flush_req
    /\ r_snoop_dcache_inval_set = DSet(0) /\ DHit(0)
    /\ r_snoop_dcache_inval_way = DHitWay(0)
    /\ r_dcache_fsm = "DCACHE_IDLE"
    /\ m_dreq.valid /\ m_dreq.type = "WRITE" /\ m_dreq.addr = 0 /\ m_drsp.valid
    /\ DRead(0) = 1
    /\ DHit(2)

(* ------------------------------------------------------------------ *)
(* C18 - Tag uniqueness.  In every reachable state, in each set of the  *)
(* data cache and of the instruction cache, two different valid ways    *)
(* never hold the same tag.                                             *)
(* ------------------------------------------------------------------ *)
TagsUnique(c) ==
    \A s \in DOMAIN c.line : \A w1, w2 \in CacheWays(c, s) :
        (w1 # w2 /\ c.line[s][w1].valid /\ c.line[s][w2].valid) =>
            c.line[s][w1].tag # c.line[s][w2].tag

SameDepth(a, d, t) == Len(a) = Len(d) /\ Len(d) = Len(t)

\* One FIFO of the write buffer after a cycle that pushes x if a store is accepted.
FifoAfter(f, x) ==
    LET g == IF WriteDone THEN Tail(f) ELSE f
    IN IF StoreAccepted THEN Append(g, x) ELSE g

RspFlag == r_pibus_rsp_ok \/ r_pibus_rsp_error

DcacheWaits == r_dcache_fsm \in {"DCACHE_MISS_WAIT", "DCACHE_UNC_WAIT"}
IcacheWaits == r_icache_fsm \in {"ICACHE_MISS_WAIT", "ICACHE_UNC_WAIT"}

\* The state a waiting FSM goes to when it takes the flag.
DcacheTakes ==
    r_dcache_fsm' = IF r_pibus_rsp_error THEN "DCACHE_ERROR"
                    ELSE IF r_dcache_fsm = "DCACHE_MISS_WAIT" THEN "DCACHE_MISS_UPDT"
                    ELSE "DCACHE_UNC_GO"
IcacheTakes ==
    r_icache_fsm' = IF r_pibus_rsp_error THEN "ICACHE_ERROR"
                    ELSE IF r_icache_fsm = "ICACHE_MISS_WAIT" THEN "ICACHE_MISS_UPDT"
                    ELSE "ICACHE_UNC_GO"

\* The bus engine completes a read in this cycle.
ReadCompletes ==
    /\ r_pibus_fsm \in {"PIBUS_READ_DTAD", "PIBUS_READ_DT"}
    /\ r_pibus_fsm' = "PIBUS_IDLE"

C20_CompletionFlags ==
    [][ /\ ~(r_pibus_rsp_ok /\ r_pibus_rsp_error)
        /\ ~(r_pibus_rsp_ok' /\ r_pibus_rsp_error')
        /\ (RspFlag /\ r_pibus_ins) =>
             /\ IcacheWaits /\ IcacheTakes
             /\ DcacheWaits => r_dcache_fsm' = r_dcache_fsm
        /\ (RspFlag /\ ~r_pibus_ins) =>
             /\ DcacheWaits /\ DcacheTakes
             /\ IcacheWaits => r_icache_fsm' = r_icache_fsm
        /\ (DcacheWaits /\ r_dcache_fsm' # r_dcache_fsm) => (RspFlag /\ ~r_pibus_ins)
        /\ (IcacheWaits /\ r_icache_fsm' # r_icache_fsm) => (RspFlag /\ r_pibus_ins)
        /\ RspFlag' => ReadCompletes
        /\ ReadCompletes => (RspFlag' /\ r_pibus_ins' = r_pibus_ins) ]_vars

\* Both FSMs wait for a line when the instruction read completes: the flag
\* is up for the ICACHE_FSM while the DCACHE_FSM is in DCACHE_MISS_WAIT.
C20_Witness ==
    /\ r_pibus_rsp_ok /\ r_pibus_ins
    /\ r_icache_fsm = "ICACHE_MISS_WAIT"
    /\ r_dcache_fsm = "DCACHE_MISS_WAIT" /\ r_dcache_miss_req

====
